---- MODULE Spec2Model ----
(***************************************************************************)
(* Yale Doorman L3S BLE monitor: the state ledger and its event log       *)
(* (state.py), the adaptive polling policy and its loop (scheduler.py),    *)
(* the BLE monitor (ble_monitor.py), the application's start and shutdown  *)
(* (app.py), the dashboard's event stream (dashboard.py) and the Home      *)
(* Assistant plugin's active-hours polling                                 *)
(* (custom_components/yale_doorman/__init__.py).                           *)
(*                                                                         *)
(* Every StateManager mutator is synchronous Python (no await), so one     *)
(* mutator call, with the event_log.add and the _notify fan-out it makes   *)
(* and every mutator a subscriber calls back into, is one atomic step.     *)
(***************************************************************************)
EXTENDS Integers, Sequences, FiniteSets, TLC

VARIABLES
    state,        \* StateManager.state: the DoormanState snapshot
    events,       \* EventLog._events: the in-memory window
    file,         \* the lines of the durable events file
    maxMemory,    \* EventLog._max_memory
    callbacks,    \* StateManager._callbacks: what each subscriber does
    delivered,    \* per subscriber, the (event, snapshot) pairs it was called with
    accepted,     \* history: every event handed to EventLog.add, in order
    clock,        \* history: the instant of the latest handler that read the time
    call,         \* the latest top-level call and what it returned
    sched,        \* AdaptiveScheduler's timestamps
    pollConfig,   \* PollConfig
    mono,         \* time.monotonic()
    out,          \* the latest query (scheduler, event log, advertisement) and its result
    monitor,      \* YaleBLEMonitor: its fields, its configuration, where its coroutines stand
    link,         \* the external session (PushLock) and scanner (BleakScanner)
    driver,       \* AdaptiveScheduler._running/_poll_task and the run() task
    app,          \* run_app: where the application's main coroutine stands
    dash,         \* Dashboard: its stream clients and the broadcasts in flight
    plugin        \* the Home Assistant plugin's active-hours polling

vars == <<state, events, file, maxMemory, callbacks, delivered, accepted,
          clock, call, sched, pollConfig, mono, out, monitor, link, driver,
          app, dash, plugin>>

ledgerVars == <<state, events, file, maxMemory, callbacks, delivered,
                accepted, clock, call>>

schedVars == <<sched, pollConfig, mono>>

appVars == <<monitor, link, driver, app, dash, plugin>>

----------------------------------------------------------------------------
(* Bounds of the model *)

\* handler calls that read the time, per behaviour
MaxClock == 2

\* registered subscribers
MaxSubscribers == 2

\* largest in-memory window an EventLog is constructed with
MaxWindow == 2

\* lines of the events file when an EventLog is constructed on it
MaxFileLines == 3

\* EventLog.add calls after the construction
MaxAdds == 1

\* latest reading of the monotonic clock
MaxMono == 3

\* largest configured active_decay_sec
MaxDecay == 2

\* largest configured battery_poll_interval_sec
MaxBatteryInterval == 2

\* events in the ledger up to which the session still delivers
\* notifications that add events
MaxLinkEvents == 2

\* sessions or scanners left running up to which start() is called again
MaxLive == 2

\* stream clients of the dashboard
MaxClients == 2

\* events broadcast to the stream clients
MaxBroadcasts == 2

\* times of day the plugin's schedule tells apart
DaySlots == 3

\* push_lock.update() calls of the plugin in flight, of each origin
MaxUpdates == 1

----------------------------------------------------------------------------
(* Values *)

\* Python's None, and a present optional value
None == <<>>

Some(x) == <<x>>

\* last_updated / last_activity before any update: the empty string
NoTime == 0

LockValues == {"locked", "unlocked"}

DoorValues == {"open", "closed"}

BatteryLevels == {79, 80}

Voltages == {None, Some(3)}

RssiValues == {None, Some(-70)}

Sources == {"poll"}

\* what a subscriber's callback does when invoked
SubscriberKinds == {"returns", "raises", "reenters"}

WindowSizes == 0 .. MaxWindow

\* max_memory_events: int = 500
DefaultMaxMemoryEvents == 500

Hours == 0 .. 23

\* DoormanState()
DoormanState ==
    [lock_state |-> "unknown", door_state |-> "unknown",
     battery_level |-> None, battery_voltage |-> None,
     doorbell_ringing |-> FALSE,
     auto_lock_enabled |-> FALSE, auto_lock_duration |-> 0,
     connected |-> FALSE, rssi |-> None,
     lock_model |-> "", lock_serial |-> "", lock_firmware |-> "",
     last_updated |-> NoTime, last_activity |-> NoTime,
     last_activity_type |-> ""]

StateEvent(timestamp, event_type, old_value, new_value, source) ==
    [timestamp |-> timestamp, event_type |-> event_type,
     old_value |-> old_value, new_value |-> new_value, source |-> source]

\* json.dumps(event.to_dict()) + "\n": one line holding a JSON object
JsonLine(event) == [kind |-> "json", obj |-> event]

\* a line that is empty once stripped
BlankLine == [kind |-> "blank", obj |-> <<>>]

\* a line json.loads or StateEvent(**data) rejects
MalformedLine == [kind |-> "malformed", obj |-> <<>>]

\* Python's s[-n:]: the last n elements, and all of s when n = 0 (s[-0:] is s[0:])
LastN(s, n) ==
    IF n = 0 \/ n >= Len(s) THEN s ELSE SubSeq(s, Len(s) - n + 1, Len(s))

\* str(level) if level is not None else "unknown"
BatteryStr(level) == IF level = None THEN "unknown" ELSE ToString(level[1])

\* "ringing" if ringing else "idle"
DoorbellStr(ringing) == IF ringing THEN "ringing" ELSE "idle"

\* "connected" if connected else "disconnected"
ConnectionStr(connected) == IF connected THEN "connected" ELSE "disconnected"

\* f"door_{new_state}"
DoorActivity(new_state) ==
    CASE new_state = "open" -> "door_open"
      [] new_state = "closed" -> "door_closed"
      [] new_state = "ajar" -> "door_ajar"
      [] OTHER -> "door_unknown"

----------------------------------------------------------------------------
(* The ledger as functions of a world w:                                   *)
(*   w.state, w.events, w.file, w.accepted, w.delivered  the ledger        *)
(*   w.now     what _now() returns during this handler                     *)
(*   w.diskOk  whether appends to the events file succeed                  *)
(*   w.exc     an exception is propagating                                 *)
(*   w.ret     the value the latest mutator returned                       *)
(***************************************************************************)

World(now, diskOk) ==
    [state |-> state, events |-> events, file |-> file, accepted |-> accepted,
     delivered |-> delivered, now |-> now, diskOk |-> diskOk,
     exc |-> FALSE, ret |-> FALSE]

\* EventLog.add without the try/except around the write: a failed write
\* raises out of add
EventLog_add_unguarded(w, event) ==
    LET appended == Append(w.events, event)
    IN [w EXCEPT
          !.events = IF Len(appended) > maxMemory
                     THEN LastN(appended, maxMemory) ELSE appended,
          !.file = IF w.diskOk THEN Append(@, JsonLine(event)) ELSE @,
          !.accepted = Append(@, event),
          !.exc = ~w.diskOk]

\* EventLog.add: append, trim the window, append to the file; a failed
\* write is caught and logged
EventLog_add(w, event) ==
    LET appended == Append(w.events, event)
    IN [w EXCEPT
          !.events = IF Len(appended) > maxMemory
                     THEN LastN(appended, maxMemory) ELSE appended,
          !.file = IF w.diskOk THEN Append(@, JsonLine(event)) ELSE @,
          !.accepted = Append(@, event)]

RECURSIVE NotifyFrom(_, _, _)
RECURSIVE update_door_state(_, _, _)

\* cb(self.state, event) for subscriber i: the call is recorded; the
\* callback returns, raises, or (on a lock_state event) calls
\* update_door_state("closed") before returning
Invoke(w, i, event) ==
    LET seen == [w EXCEPT !.delivered[i] =
                     Append(@, [event |-> event, snapshot |-> w.state])]
    IN CASE callbacks[i] = "raises" -> [seen EXCEPT !.exc = TRUE]
         [] callbacks[i] = "reenters" /\ event.event_type = "lock_state" ->
                update_door_state(seen, "closed", "callback")
         [] OTHER -> seen

\* _notify without the try/except: a callback's exception leaves the loop
NotifyUnguarded(w, i, event) == Invoke(w, i, event)

\* the try/except of _notify around one callback: the error is logged
NotifyGuarded(w, i, event) == [Invoke(w, i, event) EXCEPT !.exc = FALSE]

\* StateManager._notify, from subscriber i on
NotifyFrom(w, i, event) ==
    IF i > Len(callbacks) \/ w.exc
    THEN w
    ELSE NotifyFrom(NotifyGuarded(w, i, event), i + 1, event)

\* _notify returning after the first callback
_notify_first(w, event) ==
    IF callbacks = <<>> THEN w ELSE NotifyGuarded(w, 1, event)

_notify(w, event) == NotifyFrom(w, 1, event)

\* what follows the state assignments of an accepted mutation:
\* self.event_log.add(event); self._notify(event); return True
Emit(w, event) ==
    LET n == _notify(EventLog_add(w, event), event)
    IN [n EXCEPT !.ret = ~n.exc]

\* update_lock_state without the comparison with the stored value
update_lock_state_always(w, new_state, source) ==
    Emit([w EXCEPT !.state.lock_state = new_state,
                   !.state.last_updated = w.now,
                   !.state.last_activity = w.now,
                   !.state.last_activity_type = new_state],
         StateEvent(w.now, "lock_state", w.state.lock_state, new_state,
                    source))

update_lock_state(w, new_state, source) ==
    IF new_state = w.state.lock_state
    THEN [w EXCEPT !.ret = FALSE]
    ELSE Emit([w EXCEPT !.state.lock_state = new_state,
                        !.state.last_updated = w.now,
                        !.state.last_activity = w.now,
                        !.state.last_activity_type = new_state],
              StateEvent(w.now, "lock_state", w.state.lock_state, new_state,
                         source))

update_door_state(w, new_state, source) ==
    IF new_state = w.state.door_state
    THEN [w EXCEPT !.ret = FALSE]
    ELSE Emit([w EXCEPT !.state.door_state = new_state,
                        !.state.last_updated = w.now,
                        !.state.last_activity = w.now,
                        !.state.last_activity_type = DoorActivity(new_state)],
              StateEvent(w.now, "door_state", w.state.door_state, new_state,
                         source))

\* update_battery comparing the voltage as well as the level
update_battery_by_voltage(w, level, voltage, source) ==
    IF Some(level) = w.state.battery_level
          /\ voltage = w.state.battery_voltage
    THEN [w EXCEPT !.ret = FALSE]
    ELSE Emit([w EXCEPT !.state.battery_level = Some(level),
                        !.state.battery_voltage = voltage,
                        !.state.last_updated = w.now],
              StateEvent(w.now, "battery", BatteryStr(w.state.battery_level),
                         ToString(level), source))

update_battery(w, level, voltage, source) ==
    IF Some(level) = w.state.battery_level
    THEN [w EXCEPT !.ret = FALSE]
    ELSE Emit([w EXCEPT !.state.battery_level = Some(level),
                        !.state.battery_voltage = voltage,
                        !.state.last_updated = w.now],
              StateEvent(w.now, "battery", BatteryStr(w.state.battery_level),
                         ToString(level), source))

\* update_doorbell marking an activity at every accepted transition
update_doorbell_always_active(w, ringing, source) ==
    IF ringing = w.state.doorbell_ringing
    THEN [w EXCEPT !.ret = FALSE]
    ELSE Emit([w EXCEPT !.state.doorbell_ringing = ringing,
                        !.state.last_updated = w.now,
                        !.state.last_activity = w.now,
                        !.state.last_activity_type = "doorbell"],
              StateEvent(w.now, "doorbell",
                         DoorbellStr(w.state.doorbell_ringing),
                         DoorbellStr(ringing), source))

update_doorbell(w, ringing, source) ==
    IF ringing = w.state.doorbell_ringing
    THEN [w EXCEPT !.ret = FALSE]
    ELSE Emit([w EXCEPT !.state.doorbell_ringing = ringing,
                        !.state.last_updated = w.now,
                        !.state.last_activity =
                            IF ringing THEN w.now ELSE @,
                        !.state.last_activity_type =
                            IF ringing THEN "doorbell" ELSE @],
              StateEvent(w.now, "doorbell",
                         DoorbellStr(w.state.doorbell_ringing),
                         DoorbellStr(ringing), source))

\* update_connection storing the signal strength only when the flag flips
update_connection_rssi_on_flip(w, connected, rssi) ==
    LET changed == connected # w.state.connected
        set == [w EXCEPT !.state.connected = connected,
                         !.state.rssi = IF changed THEN rssi ELSE @,
                         !.state.last_updated = w.now]
    IN IF changed
       THEN [Emit(set, StateEvent(w.now, "connection",
                                  ConnectionStr(~connected),
                                  ConnectionStr(connected), "system"))
             EXCEPT !.ret = FALSE]
       ELSE [set EXCEPT !.ret = FALSE]

\* update_connection emitting the event whether or not the flag flips
update_connection_always_emits(w, connected, rssi) ==
    [Emit([w EXCEPT !.state.connected = connected,
                    !.state.rssi = rssi,
                    !.state.last_updated = w.now],
          StateEvent(w.now, "connection", ConnectionStr(~connected),
                     ConnectionStr(connected), "system"))
     EXCEPT !.ret = FALSE]

\* returns None: w.ret stays FALSE
update_connection(w, connected, rssi) ==
    LET changed == connected # w.state.connected
        set == [w EXCEPT !.state.connected = connected,
                         !.state.rssi = rssi,
                         !.state.last_updated = w.now]
    IN IF changed
       THEN [Emit(set, StateEvent(w.now, "connection",
                                  ConnectionStr(~connected),
                                  ConnectionStr(connected), "system"))
             EXCEPT !.ret = FALSE]
       ELSE [set EXCEPT !.ret = FALSE]

update_lock_info(w, model, serial, firmware) ==
    [w EXCEPT !.state.lock_model = model,
              !.state.lock_serial = serial,
              !.state.lock_firmware = firmware]

update_auto_lock(w, enabled, duration) ==
    [w EXCEPT !.state.auto_lock_enabled = enabled,
              !.state.auto_lock_duration = duration]

----------------------------------------------------------------------------
(* The ledger's operations as steps *)

\* the latest call: its name, its value argument (a string, a flag or an
\* optional number, by the operation), what it returned, whether it raised
Call(op, str, flag, num, w) ==
    [op |-> op, str |-> str, flag |-> flag, num |-> num,
     ret |-> w.ret, raised |-> w.exc]

NoCall ==
    [op |-> "none", str |-> "", flag |-> FALSE, num |-> None,
     ret |-> FALSE, raised |-> FALSE]

\* the handler ran to its end in world w; it read the time iff timeRead
Commit(w, timeRead) ==
    /\ state' = w.state
    /\ events' = w.events
    /\ file' = w.file
    /\ accepted' = w.accepted
    /\ delivered' = w.delivered
    /\ clock' = IF timeRead THEN w.now ELSE clock
    /\ UNCHANGED <<maxMemory, callbacks, sched, pollConfig, mono, out,
                   appVars>>

\* subscribers are registered while the application is wired up, before
\* the first mutation (app.py:127, dashboard.py:45)
register_callback(kind) ==
    /\ Len(callbacks) < MaxSubscribers
    /\ call.op \in {"none", "register_callback"}
    /\ callbacks' = Append(callbacks, kind)
    /\ delivered' = Append(delivered, <<>>)
    /\ call' = [NoCall EXCEPT !.op = "register_callback", !.str = kind]
    /\ UNCHANGED <<state, events, file, maxMemory, accepted, clock,
                   sched, pollConfig, mono, out, appVars>>

CallUpdateLockState(new_state, source, diskOk) ==
    /\ clock < MaxClock
    /\ LET w == update_lock_state(World(clock + 1, diskOk), new_state, source)
       IN /\ Commit(w, new_state # state.lock_state)
          /\ call' = Call("update_lock_state", new_state, FALSE, None, w)

CallUpdateDoorState(new_state, source, diskOk) ==
    /\ clock < MaxClock
    /\ LET w == update_door_state(World(clock + 1, diskOk), new_state, source)
       IN /\ Commit(w, new_state # state.door_state)
          /\ call' = Call("update_door_state", new_state, FALSE, None, w)

CallUpdateBattery(level, voltage, source, diskOk) ==
    /\ clock < MaxClock
    /\ LET w == update_battery(World(clock + 1, diskOk), level, voltage, source)
       IN /\ Commit(w, Some(level) # state.battery_level)
          /\ call' = Call("update_battery", "", FALSE, Some(level), w)
                       @@ [voltage |-> voltage]

CallUpdateDoorbell(ringing, source, diskOk) ==
    /\ clock < MaxClock
    /\ LET w == update_doorbell(World(clock + 1, diskOk), ringing, source)
       IN /\ Commit(w, ringing # state.doorbell_ringing)
          /\ call' = Call("update_doorbell", "", ringing, None, w)

CallUpdateConnection(connected, rssi, diskOk) ==
    /\ clock < MaxClock
    /\ LET w == update_connection(World(clock + 1, diskOk), connected, rssi)
       IN /\ Commit(w, TRUE)
          /\ call' = Call("update_connection", "", connected, rssi, w)

\* update_lock_info and update_auto_lock never call _now()
CallUpdateLockInfo(model, serial, firmware) ==
    LET w == update_lock_info(World(clock, TRUE), model, serial, firmware)
    IN /\ Commit(w, FALSE)
       /\ call' = Call("update_lock_info", model, FALSE, None, w)

CallUpdateAutoLock(enabled, duration) ==
    LET w == update_auto_lock(World(clock, TRUE), enabled, duration)
    IN /\ Commit(w, FALSE)
       /\ call' = Call("update_auto_lock", "", enabled, Some(duration), w)

----------------------------------------------------------------------------
(* EventLog on its own: construction from the events file, recent, add *)

RECURSIVE LoadLines(_, _)

\* the loop of _load_recent over the lines it kept: a blank line is
\* skipped, a well-formed one appended, and a malformed one raises out of
\* the loop into the except clause around it, which logs and returns
LoadLines(lines, loaded) ==
    IF lines = <<>>
    THEN loaded
    ELSE CASE Head(lines).kind = "blank" -> LoadLines(Tail(lines), loaded)
           [] Head(lines).kind = "json" ->
                  LoadLines(Tail(lines), Append(loaded, Head(lines).obj))
           [] OTHER -> loaded

\* EventLog._load_recent: for line in lines[-self._max_memory:]
_load_recent(lines, max_memory) == LoadLines(LastN(lines, max_memory), <<>>)

\* EventLog.recent: self._events[-count:]
recent(evs, count) == LastN(evs, count)

\* EventLog(events_file, max_memory_events)
EventLog_init ==
    /\ call.op = "none"
    /\ events' = _load_recent(file, maxMemory)
    /\ call' = [NoCall EXCEPT !.op = "EventLog"]
    /\ UNCHANGED <<state, file, maxMemory, callbacks, delivered, accepted,
                   clock, sched, pollConfig, mono, out, appVars>>

\* StateManager(events_file) constructed again on the events file the
\* previous process left: a fresh DoormanState, an EventLog that loads the
\* tail of the file, no callbacks.  accepted starts again with the new
\* ledger.
StateManager_init ==
    /\ state' = DoormanState
    /\ events' = _load_recent(file, maxMemory)
    /\ callbacks' = <<>>
    /\ delivered' = <<>>
    /\ accepted' = <<>>
    /\ call' = [NoCall EXCEPT !.op = "StateManager"]
    /\ UNCHANGED <<file, maxMemory, clock, sched, pollConfig, mono, out,
                   appVars>>

CallRecent(count) ==
    /\ call.op # "none"
    /\ out' = [op |-> "recent", count |-> count,
               result |-> recent(events, count)]
    /\ UNCHANGED <<state, events, file, maxMemory, callbacks, delivered,
                   accepted, clock, call, sched, pollConfig, mono, appVars>>

CallAdd(event, diskOk) ==
    /\ call.op # "none"
    /\ Len(accepted) < MaxAdds
    /\ LET w == EventLog_add(World(clock, diskOk), event)
       IN /\ events' = w.events
          /\ file' = w.file
          /\ accepted' = w.accepted
    /\ call' = [NoCall EXCEPT !.op = "add"]
    /\ out' = [op |-> "none"]
    /\ UNCHANGED <<state, maxMemory, callbacks, delivered, clock,
                   sched, pollConfig, mono, appVars>>

----------------------------------------------------------------------------
(* AdaptiveScheduler's policy.  s is the scheduler's timestamps, now a    *)
(* reading of time.monotonic(), hour datetime.now().hour, cfg PollConfig.  *)

\* _is_quiet_hours without the branch for a window across midnight
_is_quiet_hours_no_wrap(hour, cfg) ==
    cfg.quiet_hours_start <= hour /\ hour < cfg.quiet_hours_end

_is_quiet_hours(hour, cfg) ==
    IF cfg.quiet_hours_start < cfg.quiet_hours_end
    THEN cfg.quiet_hours_start <= hour /\ hour < cfg.quiet_hours_end
    ELSE hour >= cfg.quiet_hours_start \/ hour < cfg.quiet_hours_end

_is_active_mode(s, now, cfg) ==
    IF s.last_activity_time = 0
    THEN FALSE
    ELSE now - s.last_activity_time < cfg.active_decay_sec

\* get_next_poll_interval testing the quiet hours before the activity
get_next_poll_interval_quiet_first(s, now, hour, cfg) ==
    IF _is_quiet_hours(hour, cfg)
    THEN cfg.quiet_interval_sec
    ELSE IF _is_active_mode(s, now, cfg)
         THEN cfg.active_interval_sec
         ELSE cfg.normal_interval_sec

get_next_poll_interval(s, now, hour, cfg) ==
    IF _is_active_mode(s, now, cfg)
    THEN cfg.active_interval_sec
    ELSE IF _is_quiet_hours(hour, cfg)
         THEN cfg.quiet_interval_sec
         ELSE cfg.normal_interval_sec

\* should_poll_battery reading the main poll's timestamp
should_poll_battery_last_poll(s, now, cfg) ==
    IF s.last_poll_time = 0
    THEN TRUE
    ELSE now - s.last_poll_time >= cfg.battery_poll_interval_sec

should_poll_battery(s, now, cfg) ==
    IF s.last_battery_poll_time = 0
    THEN TRUE
    ELSE now - s.last_battery_poll_time >= cfg.battery_poll_interval_sec

\* a query leaves the scheduler as it is and records its answer
CallGetNextPollInterval(hour) ==
    /\ out' = [op |-> "get_next_poll_interval", hour |-> hour,
               result |-> get_next_poll_interval(sched, mono, hour,
                                                 pollConfig)]
    /\ UNCHANGED <<ledgerVars, schedVars, appVars>>

CallShouldPollBattery ==
    /\ out' = [op |-> "should_poll_battery", hour |-> 0,
               result |-> should_poll_battery(sched, mono, pollConfig)]
    /\ UNCHANGED <<ledgerVars, schedVars, appVars>>

\* the operations below clear the recorded answer: it is the answer of
\* the latest query only while nothing has happened since
on_activity ==
    /\ sched' = [sched EXCEPT !.last_activity_time = mono]
    /\ out' = [op |-> "none"]
    /\ UNCHANGED <<ledgerVars, pollConfig, mono, appVars>>

mark_polled ==
    /\ sched' = [sched EXCEPT !.last_poll_time = mono]
    /\ out' = [op |-> "none"]
    /\ UNCHANGED <<ledgerVars, pollConfig, mono, appVars>>

mark_battery_polled ==
    /\ sched' = [sched EXCEPT !.last_battery_poll_time = mono]
    /\ out' = [op |-> "none"]
    /\ UNCHANGED <<ledgerVars, pollConfig, mono, appVars>>

\* time passes
AdvanceMono ==
    /\ mono < MaxMono
    /\ mono' = mono + 1
    /\ out' = [op |-> "none"]
    /\ UNCHANGED <<ledgerVars, sched, pollConfig, appVars>>

----------------------------------------------------------------------------
(* YaleBLEMonitor (ble_monitor.py).  Its coroutines suspend where the code *)
(* awaits the scanner or the session; monitor.pc says where start() or     *)
(* stop() stands, monitor.poll whether poll_state awaits its read.         *)

\* Config: the three fields the monitor reads
Config(key, address, name) ==
    [lock_key |-> key, lock_address |-> address, lock_name |-> name]

\* YaleBLEMonitor(config, state_manager)
YaleBLEMonitor(config) ==
    [config |-> config, _push_lock |-> FALSE, _cancel_push_lock |-> FALSE,
     _scanner |-> FALSE, _running |-> FALSE, _device_found |-> FALSE,
     pc |-> "idle", poll |-> "idle"]

\* no PushLock and no BleakScanner exist yet.  session and scanner say
\* where the objects the monitor holds stand, scanning whether that
\* scanner runs; sessions and scanners count the PushLocks started and not
\* cancelled and the BleakScanners started and not stopped, held by the
\* monitor or not; teardown is what the latest stop() did
NoLink ==
    [session |-> "none", scanner |-> "none", scanning |-> FALSE,
     sessions |-> 0, scanners |-> 0, teardown |-> {}]

\* _now() of a handler in flight; instants past MaxClock are not told apart
Tick == IF clock < MaxClock THEN clock + 1 ELSE clock

Addresses == {"", "aa:01", "AA:01", "BB:02"}

\* str.upper() on the addresses above
Upper(a) == IF a = "aa:01" THEN "AA:01" ELSE a

\* a BLEDevice and its AdvertisementData: address, name (None as ""),
\* local_name (None as "")
Advertisement(address, name, local_name) ==
    [address |-> address, name |-> name, local_name |-> local_name]

\* x or y or "" on strings
OrElse(x, y) == IF x # "" THEN x ELSE y

_matches_our_lock(config, ad) ==
    IF config.lock_address # ""
          /\ Upper(ad.address) = Upper(config.lock_address)
    THEN TRUE
    ELSE IF config.lock_name # ""
         THEN OrElse(ad.name, ad.local_name) = config.lock_name
         ELSE FALSE

\* _on_advertisement forwarding without looking at _running
forwards_while_stopped(m, ad) ==
    m._push_lock /\ _matches_our_lock(m.config, ad)

\* whether _on_advertisement reaches push_lock.update_advertisement
forwards(m, ad) ==
    m._push_lock /\ m._running /\ _matches_our_lock(m.config, ad)

\* the scanner's detection callback
_on_advertisement(ad) ==
    /\ link.scanner \in {"starting", "started", "stopping"}
    /\ out' = [op |-> "_on_advertisement", ad |-> ad,
               forwarded |-> forwards(monitor, ad)]
    /\ monitor' = [monitor EXCEPT !._device_found =
                       IF forwards(monitor, ad) THEN TRUE ELSE @]
    /\ UNCHANGED <<ledgerVars, schedVars, link, driver, app, dash, plugin>>

\* LOCK_STATUS_MAP.get(status, "unknown")
LOCK_STATUS_MAP(status) ==
    CASE status = "LOCKED" -> "locked"
      [] status = "UNLOCKED" -> "unlocked"
      [] status = "LOCKING" -> "locking"
      [] status = "UNLOCKING" -> "unlocking"
      [] status = "JAMMED" -> "jammed"
      [] status = "SECUREMODE" -> "locked"
      [] status = "UNKNOWN" -> "unknown"
      [] status = "UNKNOWN_01" -> "calibrating"
      [] status = "UNKNOWN_06" -> "unknown"
      [] OTHER -> "unknown"

\* DOOR_STATUS_MAP.get(status, "unknown")
DOOR_STATUS_MAP(status) ==
    CASE status = "CLOSED" -> "closed"
      [] status = "OPENED" -> "open"
      [] status = "AJAR" -> "ajar"
      [] status = "UNKNOWN" -> "unknown"
      [] status = "UNKNOWN_04" -> "unknown"
      [] OTHER -> "unknown"

\* what PushLock hands to its callback: the fields of LockState (None
\* when absent), LockInfo and ConnectionInfo
Notification(lock, door, battery, auto_lock, auth, lock_info, conn_info) ==
    [lock |-> lock, door |-> door, battery |-> battery,
     auto_lock |-> auto_lock, auth |-> auth, lock_info |-> lock_info,
     conn_info |-> conn_info]

\* _notify_activity run after each accepted update
activity_per_update(lock, door, battery) ==
    (IF lock THEN 1 ELSE 0) + (IF door THEN 1 ELSE 0)
        + (IF battery THEN 1 ELSE 0)

\* "changed" after the lock, door and battery updates returned lock, door
\* and battery, then "if changed: self._notify_activity()": how many times
\* the registered activity callback (app.py:230) is invoked
activity_notified(lock, door, battery) ==
    IF lock \/ door \/ battery THEN 1 ELSE 0

\* YaleBLEMonitor._on_state_change on the ledger: the world after it,
\* whether any of the lock, door and battery updates was accepted, and
\* how many times the activity callback was invoked
_on_state_change(w, n) ==
    LET w1 == IF n.lock # None
              THEN update_lock_state(w, LOCK_STATUS_MAP(n.lock[1]),
                                     "notification")
              ELSE [w EXCEPT !.ret = FALSE]
        w2 == IF n.door # None
              THEN update_door_state(w1, DOOR_STATUS_MAP(n.door[1]),
                                     "notification")
              ELSE [w1 EXCEPT !.ret = FALSE]
        w3 == IF n.battery # None
              THEN update_battery(w2, n.battery[1].percentage,
                                  n.battery[1].voltage, "notification")
              ELSE [w2 EXCEPT !.ret = FALSE]
        w4 == IF n.auto_lock # None
              THEN update_auto_lock(w3, n.auto_lock[1].mode # "OFF",
                                    n.auto_lock[1].duration)
              ELSE w3
        w5 == IF n.lock_info # None
              THEN update_lock_info(w4, n.lock_info[1].model,
                                    n.lock_info[1].serial,
                                    n.lock_info[1].firmware)
              ELSE w4
        w6 == IF n.conn_info # None
              THEN update_connection(w5, TRUE, n.conn_info[1].rssi)
              ELSE w5
    IN [w |-> w6, changed |-> w1.ret \/ w2.ret \/ w3.ret,
        activity |-> activity_notified(w1.ret, w2.ret, w3.ret)]

\* the ledger after a handler that ended in world w
Ledger(w) ==
    /\ state' = w.state
    /\ events' = w.events
    /\ file' = w.file
    /\ accepted' = w.accepted
    /\ delivered' = w.delivered
    /\ clock' = w.now

\* _on_state_change called with n; a change runs _notify_activity, whose
\* one callback is scheduler.on_activity (app.py:230).  The events file
\* is writable here.  Notifications that add events are delivered up to
\* MaxLinkEvents, the others always.
state_change_received(n) ==
    /\ LET r == _on_state_change(World(Tick, TRUE), n)
       IN /\ Len(accepted) < MaxLinkEvents \/ r.w.accepted = accepted
          /\ Ledger(r.w)
          /\ sched' = IF r.activity > 0
                      THEN [sched EXCEPT !.last_activity_time = mono]
                      ELSE sched
          /\ call' = [NoCall EXCEPT !.op = "_on_state_change",
                                    !.ret = r.changed,
                                    !.num = Some(r.activity)]
    /\ out' = [op |-> "none"]
    /\ UNCHANGED <<maxMemory, callbacks, pollConfig, mono, appVars>>

\* the started session calls the callback registered in start()
OnStateChange(n) ==
    /\ link.session = "started"
    /\ state_change_received(n)

\* the session start() started calls the callback after stop() cancelled
\* it: the callback stays registered with the PushLock (start() drops
\* what register_callback returns) and stop() has nothing that holds a
\* call in flight back
OnLateStateChange(n) ==
    /\ link.session \in {"cancelled", "disconnected"}
    /\ "cancel" \in link.teardown
    /\ state_change_received(n)

\* the ledger is left alone
SameLedger == UNCHANGED <<state, events, file, accepted, delivered, clock>>

\* a monitor call and where it stands: begun (suspended), done, raised
MonitorCall(op, stage) ==
    [NoCall EXCEPT !.op = op, !.str = stage, !.raised = (stage = "raised")]

\* start() going ahead whatever the key is
has_key_always(config) == TRUE

\* if not self._config.lock_key: ... return
has_key(config) == config.lock_key # ""

\* start() up to its first await: without a key it returns at once;
\* with one it makes the PushLock, registers _on_state_change, makes the
\* BleakScanner and awaits scanner.start().  The new objects replace the
\* ones the monitor held, which are left as they are.
start_entered ==
    /\ monitor.pc = "idle"
    /\ IF has_key(monitor.config)
       THEN /\ monitor' = [monitor EXCEPT !._push_lock = TRUE,
                                          !._scanner = TRUE,
                                          !.pc = "scanner_start"]
            /\ link' = [link EXCEPT !.session = "created",
                                    !.scanner = "starting",
                                    !.scanning = FALSE]
            /\ call' = MonitorCall("start", "begun")
       ELSE /\ UNCHANGED <<monitor, link>>
            /\ call' = MonitorCall("start", "no_key")
    /\ out' = [op |-> "none"]
    /\ SameLedger
    /\ UNCHANGED <<maxMemory, callbacks, schedVars>>

\* start() on a monitor that has not made a session yet: run_app and
\* cmd_poll_once call start() once (app.py:129, app.py:248)
start_begin ==
    /\ link.session = "none"
    /\ start_entered

\* start() called again on a monitor that has made a session, after a
\* stop() or without one
start_again ==
    /\ link.session # "none"
    /\ link.sessions < MaxLive
    /\ link.scanners < MaxLive
    /\ start_entered

\* await self._scanner.start() returns or raises; a raise leaves start()
ScannerStartReturns(ok) ==
    /\ monitor.pc = "scanner_start"
    /\ monitor' = [monitor EXCEPT !.pc =
                       IF ok THEN "push_lock_start" ELSE "idle"]
    /\ link' = [link EXCEPT !.scanner = IF ok THEN "started" ELSE "none",
                            !.scanning = ok,
                            !.scanners = IF ok THEN @ + 1 ELSE @]
    /\ call' = MonitorCall("start", IF ok THEN "begun" ELSE "raised")
    /\ out' = [op |-> "none"]
    /\ SameLedger
    /\ UNCHANGED <<maxMemory, callbacks, schedVars, driver, app, dash, plugin>>

\* await self._push_lock.start() returns the cancel callback, and start()
\* runs to its end: _running = True, update_connection(False); or it
\* raises out of start()
PushLockStartReturns(ok) ==
    /\ monitor.pc = "push_lock_start"
    /\ IF ok
       THEN /\ monitor' = [monitor EXCEPT !._cancel_push_lock = TRUE,
                                          !._running = TRUE,
                                          !.pc = "idle"]
            /\ link' = [link EXCEPT !.session = "started",
                                    !.sessions = @ + 1]
            /\ Ledger(update_connection(World(Tick, TRUE), FALSE, None))
            /\ call' = MonitorCall("start", "done")
       ELSE /\ monitor' = [monitor EXCEPT !.pc = "idle"]
            /\ link' = link
            /\ SameLedger
            /\ call' = MonitorCall("start", "raised")
    /\ out' = [op |-> "none"]
    /\ UNCHANGED <<maxMemory, callbacks, schedVars, driver, app, dash, plugin>>

\* stop() from "if self._scanner:" (stage "scanner") or from
\* "if self._push_lock:" (stage "push_lock") to its next await or its end:
\* the monitor, the link, and whether stop() reached its last statements
stop_rest(m, l, stage) ==
    IF stage = "scanner" /\ m._scanner
    THEN [m |-> [m EXCEPT !.pc = "scanner_stop"],
          l |-> [l EXCEPT !.scanner = "stopping",
                          !.teardown = @ \cup {"scanner_stop"}],
          ended |-> FALSE]
    ELSE IF m._push_lock
         THEN [m |-> [m EXCEPT !.pc = "disconnect"],
               l |-> [l EXCEPT !.teardown = @ \cup {"disconnect"}],
               ended |-> FALSE]
         ELSE [m |-> [m EXCEPT !._device_found = FALSE, !.pc = "idle"],
               l |-> l,
               ended |-> TRUE]

\* where stop() stands after r: at an await, or past its last statements,
\* self._device_found = False; self._state.update_connection(False)
StopLands(r) ==
    /\ monitor' = r.m
    /\ link' = r.l
    /\ IF r.ended
       THEN /\ Ledger(update_connection(World(Tick, TRUE), FALSE, None))
            /\ call' = MonitorCall("stop", "done")
       ELSE /\ SameLedger
            /\ call' = MonitorCall("stop", "begun")
    /\ out' = [op |-> "none"]
    /\ UNCHANGED <<maxMemory, callbacks, schedVars>>

\* stop() up to its first await: _running = False, then the cancel
\* callback of the session, which is called outside any try: when it
\* raises (cancelOk false) the exception leaves stop() there
stop_begin(cancelOk) ==
    /\ monitor.pc = "idle"
    /\ LET m == [monitor EXCEPT !._running = FALSE]
           l == [link EXCEPT !.teardown = {}]
       IN IF ~monitor._cancel_push_lock
          THEN StopLands(stop_rest(m, l, "scanner"))
          ELSE IF cancelOk
               THEN StopLands(stop_rest(
                        [m EXCEPT !._cancel_push_lock = FALSE],
                        [l EXCEPT !.session = "cancelled",
                                  !.sessions = @ - 1,
                                  !.teardown = {"cancel"}],
                        "scanner"))
               ELSE /\ monitor' = m
                    /\ link' = [l EXCEPT !.teardown = {"cancel"}]
                    /\ SameLedger
                    /\ call' = MonitorCall("stop", "raised")
                    /\ out' = [op |-> "none"]
                    /\ UNCHANGED <<maxMemory, callbacks, schedVars>>

\* await self._scanner.stop() returns, or raises into the except around
\* it; then self._scanner = None and stop() goes on
ScannerStopReturns(ok) ==
    /\ monitor.pc = "scanner_stop"
    /\ StopLands(stop_rest(
           [monitor EXCEPT !._scanner = FALSE],
           [link EXCEPT !.scanner = IF ok THEN "stopped" ELSE "started",
                        !.scanning = IF ok THEN FALSE ELSE @,
                        !.scanners = IF ok /\ link.scanning
                                     THEN @ - 1 ELSE @],
           "push_lock"))
    /\ UNCHANGED <<driver, app, dash, plugin>>

\* await self._push_lock._execute_forced_disconnect("shutdown") returns,
\* or raises into the except around it; then self._push_lock = None and
\* stop() runs to its end
DisconnectReturns(ok) ==
    /\ monitor.pc = "disconnect"
    /\ StopLands(stop_rest(
           [monitor EXCEPT !._push_lock = FALSE],
           [link EXCEPT !.session = IF ok THEN "disconnected" ELSE @],
           "push_lock"))
    /\ UNCHANGED <<driver, app, dash, plugin>>

\* the except clause of poll_state left out: the failed read raises out
poll_failed_unhandled(w) == [w EXCEPT !.exc = TRUE]

\* poll_state's except clause: self._state.update_connection(False)
poll_failed(w) == update_connection(w, FALSE, None)

\* poll_state up to its await: "if self._push_lock and self._running"
\* guards the read; otherwise it returns at once
poll_state_begin ==
    /\ monitor.poll = "idle"
    /\ IF monitor._push_lock /\ monitor._running
       THEN /\ monitor' = [monitor EXCEPT !.poll = "reading"]
            /\ call' = MonitorCall("poll_state", "reading")
       ELSE /\ monitor' = monitor
            /\ call' = MonitorCall("poll_state", "skipped")
    /\ out' = [op |-> "none"]
    /\ SameLedger
    /\ UNCHANGED <<maxMemory, callbacks, link>>

\* await self._push_lock.update() returns, or raises an Exception into
\* the except clause
poll_state_end(ok) ==
    /\ monitor.poll = "reading"
    /\ monitor' = [monitor EXCEPT !.poll = "idle"]
    /\ IF ok
       THEN /\ SameLedger
            /\ call' = MonitorCall("poll_state", "ok")
       ELSE LET w == poll_failed(World(Tick, TRUE))
            IN /\ Ledger(w)
               /\ call' = [MonitorCall("poll_state", "failed")
                               EXCEPT !.raised = w.exc]
    /\ out' = [op |-> "none"]
    /\ UNCHANGED <<maxMemory, callbacks, link>>

\* get_diagnostics: what the dashboard's /api/diagnostics shows of the
\* monitor's own fields; lock_name is None exactly when there is no
\* PushLock ("connected" and "lock_address" are the PushLock's own)
get_diagnostics(m) ==
    [running |-> m._running, device_found |-> m._device_found,
     lock_name |-> IF m._push_lock THEN Some("lock") ELSE None]

----------------------------------------------------------------------------
(* AdaptiveScheduler.run and stop (scheduler.py).  driver holds _running,  *)
(* _poll_task and _poll_callback and the task made of run(poll_callback):  *)
(*   pc       "none" no task, "created" not yet run, "sleeping" in         *)
(*            asyncio.sleep, "polling" awaiting the callback, "done"       *)
(*   cancel   task.cancel() was called and CancelledError is to be thrown  *)
(*   interval what the pending sleep was given                             *)
(*   wake     the reading of the monotonic clock at which that sleep ends  *)
(*   last     how the latest callback invocation ended                     *)
(*   attempt  history: flips at every invocation of the callback           *)
(***************************************************************************)

\* AdaptiveScheduler.__init__: _poll_task = None, _running = False,
\* _poll_callback = None; no task yet
NoTask ==
    [_running |-> FALSE, _poll_task |-> None, _poll_callback |-> "none",
     pc |-> "none", cancel |-> FALSE, interval |-> 0, wake |-> 0,
     last |-> "none", attempt |-> FALSE]

\* asyncio.create_task(scheduler.run(poll_callback))
create_task(d, poll_callback) ==
    [d EXCEPT !._poll_callback = poll_callback, !.pc = "created"]

\* "while self._running:" and, inside, interval = get_next_poll_interval()
\* up to "await asyncio.sleep(interval)"
loop_top(d, s, hour) ==
    IF d._running
    THEN LET interval == get_next_poll_interval(s, mono, hour, pollConfig)
         IN [d EXCEPT !.pc = "sleeping", !.interval = interval,
                      !.wake = mono + interval]
    ELSE [d EXCEPT !.pc = "done"]

\* the callback returned: self.mark_polled()
polled(d, s) ==
    [d |-> [d EXCEPT !.last = "returned"],
     s |-> [s EXCEPT !.last_poll_time = mono]]

\* the callback's exception ending the loop
poll_raised_ends_loop(d, s) ==
    [d |-> [d EXCEPT !.last = "raised", !._running = FALSE], s |-> s]

\* the callback raised an Exception: it is logged
poll_raised(d, s) == [d |-> [d EXCEPT !.last = "raised"], s |-> s]

\* the driver goes from the end of a callback invocation r back to the
\* top of the loop
Resume(r, hour) ==
    /\ driver' = loop_top(r.d, r.s, hour)
    /\ sched' = r.s

\* the task runs for the first time: run() sets _running and enters the
\* loop; a task cancelled before it ever ran does not run at all
run_begin(hour) ==
    /\ driver.pc = "created"
    /\ IF driver.cancel
       THEN driver' = [driver EXCEPT !.pc = "done", !.cancel = FALSE]
       ELSE driver' = loop_top([driver EXCEPT !._running = TRUE], sched,
                               hour)
    /\ call' = MonitorCall("run", "begun")
    /\ out' = [op |-> "none"]
    /\ SameLedger
    /\ UNCHANGED <<maxMemory, callbacks, schedVars, monitor, link, app,
                   dash, plugin>>

\* the sleep ending the loop whatever _running is
stopped_in_sleep_polls(d) == d._poll_callback # "none"

\* "if self._running and self._poll_callback:" after the sleep
may_poll(d) == d._running /\ d._poll_callback # "none"

\* asyncio.sleep returns.  The loop is stopped and ends; or it invokes a
\* callback that does not suspend, which returns or raises (raises true)
\* at once, and the loop goes round
sleep_returns(raises, hour) ==
    /\ driver.pc = "sleeping"
    /\ ~driver.cancel
    /\ ~(may_poll(driver) /\ driver._poll_callback = "poll_state")
    /\ IF may_poll(driver)
       THEN LET d == [driver EXCEPT !.attempt = ~@]
            IN Resume(IF raises THEN poll_raised(d, sched)
                      ELSE polled(d, sched), hour)
       ELSE Resume([d |-> driver, s |-> sched], hour)
    /\ call' = MonitorCall("run", "woke")
    /\ out' = [op |-> "none"]
    /\ SameLedger
    /\ UNCHANGED <<maxMemory, callbacks, pollConfig, mono, monitor, link,
                   app, dash, plugin>>

\* CancelledError is thrown into the sleep: "except CancelledError: break"
sleep_cancelled ==
    /\ driver.pc = "sleeping"
    /\ driver.cancel
    /\ driver' = [driver EXCEPT !.pc = "done", !.cancel = FALSE]
    /\ call' = MonitorCall("run", "cancelled")
    /\ out' = [op |-> "none"]
    /\ SameLedger
    /\ UNCHANGED <<maxMemory, callbacks, schedVars, monitor, link, app,
                   dash, plugin>>

\* the sleep's time is up: asyncio.sleep(interval) returns interval seconds
\* after it was entered
sleep_elapses(raises, hour) ==
    /\ mono >= driver.wake
    /\ sleep_returns(raises, hour)

\* time passes, up to the end of a pending sleep, which returns on time
TimePasses ==
    /\ driver.pc = "sleeping" => mono < driver.wake
    /\ AdvanceMono

\* AdaptiveScheduler.stop: _poll_task is never assigned, so nothing is
\* cancelled
scheduler_stop(d) ==
    [d EXCEPT !._running = FALSE,
              !.cancel = IF d._poll_task # None
                         THEN d.pc \notin {"none", "done"} ELSE @]

\* task.cancel() on the task of run()
task_cancel(d) ==
    [d EXCEPT !.cancel = IF d.pc \in {"none", "done"} THEN @ ELSE TRUE]

\* asyncio.sleep returns and the loop invokes the application's callback
\* (app.py:251-253), await monitor.poll_state(): it suspends in the read,
\* or returns at once and the loop goes round
sleep_returns_poll_state(hour) ==
    /\ driver.pc = "sleeping"
    /\ ~driver.cancel
    /\ may_poll(driver)
    /\ driver._poll_callback = "poll_state"
    /\ poll_state_begin
    /\ LET d == [driver EXCEPT !.attempt = ~@]
       IN IF monitor._push_lock /\ monitor._running
          THEN /\ driver' = [d EXCEPT !.pc = "polling"]
               /\ sched' = sched
          ELSE Resume(polled(d, sched), hour)
    /\ UNCHANGED <<pollConfig, mono, app, dash, plugin>>

\* the read ends, poll_state returns to the loop (it has swallowed a
\* failure), and the loop goes round.  A CancelledError thrown into the
\* read may be turned into either outcome by the session.
poll_state_returns(ok, hour) ==
    /\ driver.pc = "polling"
    /\ poll_state_end(ok)
    /\ LET d == [driver EXCEPT !.cancel = FALSE]
       IN Resume(IF call'.raised THEN poll_raised(d, sched)
                 ELSE polled(d, sched), hour)
    /\ UNCHANGED <<pollConfig, mono, app, dash, plugin>>

\* CancelledError is thrown into the read and leaves poll_state (it is no
\* Exception) and the loop: "except CancelledError: break"
poll_state_cancelled ==
    /\ driver.pc = "polling"
    /\ driver.cancel
    /\ monitor.poll = "reading"
    /\ monitor' = [monitor EXCEPT !.poll = "idle"]
    /\ driver' = [driver EXCEPT !.pc = "done", !.cancel = FALSE,
                                !.last = "cancelled"]
    /\ call' = MonitorCall("poll_state", "cancelled")
    /\ out' = [op |-> "none"]
    /\ SameLedger
    /\ UNCHANGED <<maxMemory, callbacks, schedVars, link, app, dash, plugin>>

----------------------------------------------------------------------------
(* run_app (app.py): app.pc is where the main coroutine stands.  The      *)
(* dashboard's start and stop are left out.                                *)

\* no application around the components
NoApp == [pc |-> "none"]

\* run_app entered
RunApp == [pc |-> "init"]

\* run_app up to its first await: without a key, an address and a name it
\* returns; with a key it awaits monitor.start(); without one it goes on
\* to create the scheduler's task and waits for the shutdown signal
app_begin ==
    /\ app.pc = "init"
    /\ IF monitor.config.lock_key # ""
       THEN /\ start_begin
            /\ app' = [pc |-> "starting"]
            /\ UNCHANGED <<driver, dash, plugin>>
       ELSE /\ IF monitor.config.lock_address = ""
                     /\ monitor.config.lock_name = ""
               THEN app' = [pc |-> "returned"] /\ driver' = driver
               ELSE /\ app' = [pc |-> "serving"]
                    /\ driver' = create_task(driver, "poll_state")
            /\ call' = MonitorCall("run_app", "begun")
            /\ out' = [op |-> "none"]
            /\ SameLedger
            /\ UNCHANGED <<maxMemory, callbacks, schedVars, monitor, link, dash,
                           plugin>>

\* monitor.start() has returned, or raised out of run_app; run_app
\* creates the scheduler's task and waits for the shutdown signal
app_started ==
    /\ app.pc = "starting"
    /\ monitor.pc = "idle"
    /\ IF monitor._running
       THEN /\ app' = [pc |-> "serving"]
            /\ driver' = create_task(driver, "poll_state")
       ELSE /\ app' = [pc |-> "start_raised"]
            /\ driver' = driver
    /\ call' = MonitorCall("run_app", "started")
    /\ out' = [op |-> "none"]
    /\ SameLedger
    /\ UNCHANGED <<maxMemory, callbacks, schedVars, monitor, link, dash,
                   plugin>>

\* the shutdown signal has arrived: scheduler.stop();
\* scheduler_task.cancel(); then await scheduler_task
app_shutdown ==
    /\ app.pc = "serving"
    /\ driver' = task_cancel(scheduler_stop(driver))
    /\ app' = [pc |-> "awaiting_task"]
    /\ call' = MonitorCall("run_app", "shutdown")
    /\ out' = [op |-> "none"]
    /\ SameLedger
    /\ UNCHANGED <<maxMemory, callbacks, schedVars, monitor, link, dash,
                   plugin>>

\* run_app going on to monitor.stop() without awaiting the task
scheduler_task_not_awaited == TRUE

\* "await scheduler_task" has returned
scheduler_task_awaited == driver.pc = "done"

\* await monitor.stop(), entered once the task is over; an exception of
\* stop() leaves run_app
app_stops_monitor(cancelOk) ==
    /\ app.pc = "awaiting_task"
    /\ scheduler_task_awaited
    /\ stop_begin(cancelOk)
    /\ app' = [pc |-> IF call'.raised THEN "stop_raised" ELSE "stopping"]
    /\ UNCHANGED <<driver, dash, plugin>>

\* monitor.stop() has returned
app_stopped ==
    /\ app.pc = "stopping"
    /\ monitor.pc = "idle"
    /\ app' = [pc |-> "done"]
    /\ call' = MonitorCall("run_app", "done")
    /\ out' = [op |-> "none"]
    /\ SameLedger
    /\ UNCHANGED <<maxMemory, callbacks, schedVars, monitor, link, driver,
                   dash, plugin>>

\* the monitor's and the scheduler's methods called from outside run_app
CallStart == start_begin /\ UNCHANGED <<driver, app, dash, plugin>>

CallStartAgain == start_again /\ UNCHANGED <<driver, app, dash, plugin>>

CallStop(cancelOk) ==
    stop_begin(cancelOk) /\ UNCHANGED <<driver, app, dash, plugin>>

CallPollState ==
    poll_state_begin /\ UNCHANGED <<schedVars, driver, app, dash, plugin>>

PollStateReturns(ok) ==
    poll_state_end(ok) /\ UNCHANGED <<schedVars, driver, app, dash, plugin>>

CallSchedulerStop ==
    /\ driver' = scheduler_stop(driver)
    /\ call' = MonitorCall("scheduler_stop", "done")
    /\ out' = [op |-> "none"]
    /\ SameLedger
    /\ UNCHANGED <<maxMemory, callbacks, schedVars, monitor, link, app,
                   dash, plugin>>

CallTaskCancel ==
    /\ driver' = task_cancel(driver)
    /\ call' = MonitorCall("task_cancel", "done")
    /\ out' = [op |-> "none"]
    /\ SameLedger
    /\ UNCHANGED <<maxMemory, callbacks, schedVars, monitor, link, app,
                   dash, plugin>>

----------------------------------------------------------------------------
(* Dashboard (dashboard.py): the stream clients and the broadcasts.        *)
(* dash._sse_clients is the list of connected responses, dash.handlers     *)
(* where each client's _handle_sse coroutine stands, what it has been      *)
(* written and whether its connection is up, dash.tasks the _broadcast_sse *)
(* tasks made by asyncio.ensure_future, one per event, in order.           *)

\* no request for the stream made yet; seen is how many events had been
\* accepted when the handler read the state for its initial message,
\* joined how many when it appended the response to _sse_clients, got the
\* events written to the client as state_update, open whether the
\* connection is up
NoRequest ==
    [pc |-> "none", seen |-> 0, joined |-> 0, got |-> <<>>, open |-> TRUE]

\* a _broadcast_sse(data) task as ensure_future leaves it: not run yet.
\* data is the event's position in the accepted events, i the position of
\* the list iterator, client the response being written, dead_clients the
\* clients whose write raised
Broadcast(data) ==
    [pc |-> "pending", data |-> data, i |-> 0, client |-> 0,
     dead_clients |-> <<>>]

\* Dashboard._on_state_change called with the events numbered from .. to:
\* asyncio.ensure_future(self._broadcast_sse(data)) for each
RECURSIVE Dashboard_on_state_change(_, _, _)

Dashboard_on_state_change(d, from, to) ==
    IF from > to
    THEN d
    ELSE Dashboard_on_state_change(
             [d EXCEPT !.tasks = Append(@, Broadcast(from))], from + 1, to)

\* list.remove(x): the list without the first x
RECURSIVE Remove(_, _)

Remove(list, x) ==
    IF list = <<>>
    THEN <<>>
    ELSE IF Head(list) = x
         THEN Tail(list)
         ELSE <<Head(list)>> \o Remove(Tail(list), x)

Contains(list, x) == \E k \in 1 .. Len(list) : list[k] = x

\* for client in dead_clients: self._sse_clients.remove(client).
\* list.remove raises ValueError when the client is not in the list, and
\* the exception ends the task there
RECURSIVE remove_dead(_, _)

remove_dead(clients, dead_clients) ==
    IF dead_clients = <<>>
    THEN [clients |-> clients, raised |-> FALSE]
    ELSE IF Contains(clients, Head(dead_clients))
         THEN remove_dead(Remove(clients, Head(dead_clients)),
                          Tail(dead_clients))
         ELSE [clients |-> clients, raised |-> TRUE]

\* the for loop of _broadcast_sse taking its next item: the list iterator
\* yields self._sse_clients[i] while i is below the list's present length,
\* and the task awaits the write to it; past the end the task removes the
\* dead clients and is over
broadcast_next(d, k) ==
    LET t == d.tasks[k]
    IN IF t.i < Len(d._sse_clients)
       THEN [d EXCEPT !.tasks[k].pc = "writing",
                      !.tasks[k].client = d._sse_clients[t.i + 1],
                      !.tasks[k].i = t.i + 1]
       ELSE LET r == remove_dead(d._sse_clients, t.dead_clients)
            IN [d EXCEPT !._sse_clients = r.clients,
                         !.tasks[k].pc = IF r.raised THEN "raised" ELSE "done",
                         !.tasks[k].client = 0]

\* the ledger and everything but the dashboard are left alone
OnlyDashboard ==
    /\ SameLedger
    /\ out' = [op |-> "none"]
    /\ UNCHANGED <<maxMemory, callbacks, call, schedVars, monitor, link,
                   driver, app, plugin>>

\* the event loop runs a broadcast task for the first time; tasks made
\* ready by ensure_future run in the order they were made
broadcast_begin(k) ==
    /\ k \in 1 .. Len(dash.tasks)
    /\ dash.tasks[k].pc = "pending"
    /\ \A j \in 1 .. k - 1 : dash.tasks[j].pc # "pending"
    /\ dash' = broadcast_next(dash, k)
    /\ OnlyDashboard

\* await client.write(payload) returns, or raises: "except (...):
\* dead_clients.append(client)"; then the loop goes on.  The write
\* succeeds on a connection that is up and raises on one that is down;
\* on a response whose handler has returned meanwhile it may do either
write_returns(k, ok) ==
    /\ k \in 1 .. Len(dash.tasks)
    /\ dash.tasks[k].pc = "writing"
    /\ LET c == dash.tasks[k].client
       IN IF dash.handlers[c].pc = "closed"
          THEN ok => dash.handlers[c].open
          ELSE ok = dash.handlers[c].open
    /\ LET c == dash.tasks[k].client
           d == IF ok
                THEN [dash EXCEPT !.handlers[c].got =
                                      Append(@, dash.tasks[k].data)]
                ELSE [dash EXCEPT !.tasks[k].dead_clients = Append(@, c)]
       IN dash' = broadcast_next(d, k)
    /\ OnlyDashboard

\* _handle_sse after "await response.prepare(request)": it reads the
\* state and the recent events for the initial message and awaits the
\* write of it
_handle_sse(c) ==
    /\ c \in 1 .. Len(dash.handlers)
    /\ dash.handlers[c].pc = "none"
    /\ dash' = [dash EXCEPT !.handlers[c].pc = "initial",
                            !.handlers[c].seen = Len(accepted)]
    /\ OnlyDashboard

\* the write of the initial message returns and the handler appends the
\* response to _sse_clients; or the write raises out of the handler,
\* which is not inside the try yet
initial_written(c) ==
    /\ c \in 1 .. Len(dash.handlers)
    /\ dash.handlers[c].pc = "initial"
    /\ dash' = IF dash.handlers[c].open
               THEN [dash EXCEPT !.handlers[c].pc = "streaming",
                                 !.handlers[c].joined = Len(accepted),
                                 !._sse_clients = Append(@, c)]
               ELSE [dash EXCEPT !.handlers[c].pc = "closed"]
    /\ OnlyDashboard

\* the handler leaves its heartbeat loop, by a heartbeat write that raises
\* on a connection that is down or by the handler's cancellation, and runs
\* "finally: if response in self._sse_clients: remove(response)"
sse_handler_exits(c) ==
    /\ c \in 1 .. Len(dash.handlers)
    /\ dash.handlers[c].pc = "streaming"
    /\ dash' = [dash EXCEPT !.handlers[c].pc = "closed",
                            !._sse_clients =
                                IF Contains(@, c) THEN Remove(@, c) ELSE @]
    /\ OnlyDashboard

\* the client's connection goes down: writes to it raise from now on
connection_lost(c) ==
    /\ c \in 1 .. Len(dash.handlers)
    /\ dash.handlers[c].pc \in {"initial", "streaming"}
    /\ dash.handlers[c].open
    /\ dash' = [dash EXCEPT !.handlers[c].open = FALSE]
    /\ OnlyDashboard

\* update_lock_state called while the dashboard serves: its subscriber
\* (dashboard.py:45, the ledger's first) makes a broadcast task for every
\* event it is called with
ServedUpdateLockState(new_state) ==
    /\ Len(accepted) < MaxBroadcasts
    /\ LET w == update_lock_state(World(Tick, TRUE), new_state, "ble")
       IN /\ Ledger(w)
          /\ call' = Call("update_lock_state", new_state, FALSE, None, w)
          /\ dash' = Dashboard_on_state_change(
                         dash, Len(delivered[1]) + 1, Len(w.delivered[1]))
    /\ out' = [op |-> "none"]
    /\ UNCHANGED <<maxMemory, callbacks, schedVars, monitor, link, driver,
                   app, plugin>>

----------------------------------------------------------------------------
(* The Home Assistant plugin's active-hours polling                        *)
(* (custom_components/yale_doorman/__init__.py).  plugin holds the config  *)
(* entry and the closure of _setup_active_hours:                           *)
(*   pc          "loading" before async_setup_entry, "loaded", "unloaded"  *)
(*   options     entry.options                                             *)
(*   polling_unsub, is_currently_active   the closure's two variables      *)
(*   poll_timers the handles of the registered 30 s poll timers            *)
(*   check_timer whether the one-minute schedule check is registered       *)
(*   polls, tasks  the _async_poll_lock runs and the immediate             *)
(*               push_lock.update() tasks that have not returned           *)
(*   now         history: the time handed to the latest schedule check     *)
(*   last        history: the latest step                                  *)
Times == 0 .. DaySlots - 1

\* const.py: DEFAULT_WEEKEND_DAYS, Friday and Saturday
DEFAULT_WEEKEND_DAYS == {4, 5}

\* datetime.weekday() of the times checked: a Monday and a Friday
Weekdays == {0, 4}

Nows == [weekday : Weekdays, time : Times]

NoNow == [weekday |-> 0, time |-> 0]

Options ==
    [always_connected : BOOLEAN,
     wd_start : Times, wd_end : Times, we_start : Times, we_end : Times,
     weekend_days : {DEFAULT_WEEKEND_DAYS}]

ConfigEntry(options) ==
    [pc |-> "loading", options |-> options, polling_unsub |-> None,
     is_currently_active |-> FALSE, poll_timers |-> {},
     check_timer |-> FALSE, polls |-> 0, tasks |-> 0, now |-> NoNow,
     last |-> "none"]

_is_in_active_window(o, now) ==
    LET is_weekend == now.weekday \in o.weekend_days
        start == IF is_weekend THEN o.we_start ELSE o.wd_start
        end == IF is_weekend THEN o.we_end ELSE o.wd_end
        current == now.time
    IN  IF start <= end
        THEN start <= current /\ current < end
        ELSE start <= current \/ current < end

\* the handle async_track_time_interval returns: one not in use
async_track_time_interval(timers) ==
    CHOOSE h \in 1 .. Cardinality(timers) + 1 :
        /\ h \notin timers
        /\ \A g \in 1 .. h - 1 : g \in timers

\* _check_schedule registering a poll timer at every check inside the window
_check_schedule_every_time(p, now) ==
    LET should_be_active == _is_in_active_window(p.options, now)
    IN  IF should_be_active
        THEN LET h == async_track_time_interval(p.poll_timers)
             IN  [p EXCEPT !.is_currently_active = TRUE,
                           !.polling_unsub = Some(h),
                           !.poll_timers = @ \cup {h},
                           !.tasks = @ + 1]
        ELSE IF p.is_currently_active
        THEN [p EXCEPT !.is_currently_active = FALSE,
                       !.poll_timers =
                           IF p.polling_unsub # None
                           THEN @ \ {p.polling_unsub[1]} ELSE @,
                       !.polling_unsub = None]
        ELSE p

_check_schedule(p, now) ==
    LET should_be_active == _is_in_active_window(p.options, now)
    IN  IF should_be_active /\ ~p.is_currently_active
        THEN LET h == async_track_time_interval(p.poll_timers)
             IN  [p EXCEPT !.is_currently_active = TRUE,
                           !.polling_unsub = Some(h),
                           !.poll_timers = @ \cup {h},
                           !.tasks = @ + 1]
        ELSE IF ~should_be_active /\ p.is_currently_active
        THEN [p EXCEPT !.is_currently_active = FALSE,
                       !.poll_timers =
                           IF p.polling_unsub # None
                           THEN @ \ {p.polling_unsub[1]} ELSE @,
                       !.polling_unsub = None]
        ELSE p

_cleanup(p) ==
    IF p.polling_unsub # None
    THEN [p EXCEPT !.poll_timers = @ \ {p.polling_unsub[1]},
                   !.polling_unsub = None]
    ELSE p

\* the step is the plugin's alone
OnlyPlugin ==
    UNCHANGED <<ledgerVars, schedVars, out, monitor, link, driver, app, dash>>

\* the check makes no more immediate update tasks than the model holds
TaskFits(p) == p.tasks <= MaxUpdates

\* _setup_active_hours within async_setup_entry, dt_util.now() being now:
\* nothing when the schedule is disabled (the closure's variables, which
\* are then never made, read as their initial values); else a new closure,
\* the one-minute check and _cleanup registered with the entry, and the
\* immediate check
_setup_active_hours(now) ==
    /\ plugin.pc = "loading"
    /\ LET closure == [plugin EXCEPT !.polling_unsub = None,
                                     !.is_currently_active = FALSE]
           p == IF plugin.options.always_connected
                THEN [_check_schedule([closure EXCEPT !.check_timer = TRUE],
                                      now) EXCEPT !.now = now]
                ELSE closure
       IN  /\ TaskFits(p)
           /\ plugin' = [p EXCEPT !.pc = "loaded", !.last = "setup"]
    /\ OnlyPlugin

\* the one-minute timer calls _check_schedule(now)
minute_check(now) ==
    /\ plugin.check_timer
    /\ LET p == _check_schedule(plugin, now)
       IN  /\ TaskFits(p)
           /\ plugin' = [p EXCEPT !.now = now, !.last = "check"]
    /\ OnlyPlugin

\* a registered poll timer calls _async_poll_lock, which awaits
\* push_lock.update()
poll_timer_fires(h) ==
    /\ h \in plugin.poll_timers
    /\ plugin.polls < MaxUpdates
    /\ plugin' = [plugin EXCEPT !.polls = @ + 1, !.last = "poll_fired"]
    /\ OnlyPlugin

\* push_lock.update() returns or raises in _async_poll_lock, which logs
\* the exception and returns
_async_poll_lock_returns(ok) ==
    /\ plugin.polls > 0
    /\ plugin' = [plugin EXCEPT !.polls = @ - 1,
                                !.last = IF ok THEN "poll_ok"
                                         ELSE "poll_failed"]
    /\ OnlyPlugin

\* the immediate push_lock.update() task ends, by returning or by raising
update_task_done ==
    /\ plugin.tasks > 0
    /\ plugin' = [plugin EXCEPT !.tasks = @ - 1, !.last = "task_done"]
    /\ OnlyPlugin

\* the entry is unloaded: its on_unload callbacks run, the one-minute
\* timer's unsubscribe and _cleanup
async_unload_entry ==
    /\ plugin.pc = "loaded"
    /\ plugin' = [_cleanup(plugin) EXCEPT !.check_timer = FALSE,
                                          !.pc = "unloaded",
                                          !.last = "unload"]
    /\ OnlyPlugin

\* hass.config_entries.async_reload (_async_options_updated): the entry,
\* unloaded, is about to be set up again.  The options stay those drawn
\* at the start; the setup makes its closure from the options alone.
async_reload ==
    /\ plugin.pc = "unloaded"
    /\ plugin' = [plugin EXCEPT !.pc = "loading", !.last = "reload"]
    /\ OnlyPlugin

----------------------------------------------------------------------------
(* Specifications *)

NoOut == [op |-> "none"]

\* PollConfig(): the dataclass defaults
PollConfig ==
    [quiet_interval_sec |-> 1800, normal_interval_sec |-> 600,
     active_interval_sec |-> 120, active_decay_sec |-> 600,
     battery_poll_interval_sec |-> 3600,
     quiet_hours_start |-> 1, quiet_hours_end |-> 6]

\* AdaptiveScheduler(poll_config)
AdaptiveScheduler ==
    [last_activity_time |-> 0, last_poll_time |-> 0,
     last_battery_poll_time |-> 0]

SchedIdle ==
    /\ sched = AdaptiveScheduler
    /\ pollConfig = PollConfig
    /\ mono = 1
    /\ out = NoOut

\* no dashboard serves: no stream client, no broadcast
NoDashboard == [_sse_clients |-> <<>>, handlers |-> <<>>, tasks |-> <<>>]

\* the Home Assistant plugin is not set up
NoPlugin == [pc |-> "none"]

\* no monitor, scheduler task, application, dashboard or plugin is part of
\* the run
Unwired ==
    /\ monitor = YaleBLEMonitor(Config("", "", ""))
    /\ link = NoLink
    /\ driver = NoTask
    /\ app = NoApp
    /\ dash = NoDashboard
    /\ plugin = NoPlugin

LedgerIdle ==
    /\ state = DoormanState
    /\ events = <<>>
    /\ callbacks = <<>>
    /\ delivered = <<>>
    /\ accepted = <<>>
    /\ clock = 0
    /\ call = NoCall

(* The ledger: StateManager(events_file) on a fresh data directory, its    *)
(* EventLog built with the default window.                                 *)
Init ==
    /\ LedgerIdle
    /\ file = <<>>
    /\ maxMemory = DefaultMaxMemoryEvents
    /\ SchedIdle
    /\ Unwired

Next ==
    \/ \E kind \in SubscriberKinds : register_callback(kind)
    \/ \E v \in LockValues, s \in Sources, d \in BOOLEAN :
           CallUpdateLockState(v, s, d)
    \/ \E v \in DoorValues, s \in Sources, d \in BOOLEAN :
           CallUpdateDoorState(v, s, d)
    \/ \E l \in BatteryLevels, v \in Voltages, s \in Sources, d \in BOOLEAN :
           CallUpdateBattery(l, v, s, d)
    \/ \E r \in BOOLEAN, s \in Sources, d \in BOOLEAN :
           CallUpdateDoorbell(r, s, d)
    \/ \E c \in BOOLEAN, r \in RssiValues, d \in BOOLEAN :
           CallUpdateConnection(c, r, d)

Spec == Init /\ [][Next]_vars

(* The ledger's seven mutators, without subscribers.                      *)
NextFields ==
    \/ \E v \in LockValues, s \in Sources, d \in BOOLEAN :
           CallUpdateLockState(v, s, d)
    \/ \E v \in DoorValues, s \in Sources, d \in BOOLEAN :
           CallUpdateDoorState(v, s, d)
    \/ \E l \in BatteryLevels, v \in Voltages, s \in Sources, d \in BOOLEAN :
           CallUpdateBattery(l, v, s, d)
    \/ \E r \in BOOLEAN, s \in Sources, d \in BOOLEAN :
           CallUpdateDoorbell(r, s, d)
    \/ \E c \in BOOLEAN, r \in RssiValues, d \in BOOLEAN :
           CallUpdateConnection(c, r, d)
    \/ \E model \in {"", "L3S"}, firmware \in {"", "1.0"} :
           CallUpdateLockInfo(model, "", firmware)
    \/ \E enabled \in BOOLEAN, duration \in {0, 30} :
           CallUpdateAutoLock(enabled, duration)

SpecFields == Init /\ [][NextFields]_vars

(* The ledger over restarts: the five mutators that emit events, without  *)
(* subscribers, and the process started again on the events file at any   *)
(* time.                                                                   *)
NextReboot ==
    \/ \E v \in LockValues, s \in Sources, d \in BOOLEAN :
           CallUpdateLockState(v, s, d)
    \/ \E v \in DoorValues, s \in Sources, d \in BOOLEAN :
           CallUpdateDoorState(v, s, d)
    \/ \E l \in BatteryLevels, v \in Voltages, s \in Sources, d \in BOOLEAN :
           CallUpdateBattery(l, v, s, d)
    \/ \E r \in BOOLEAN, s \in Sources, d \in BOOLEAN :
           CallUpdateDoorbell(r, s, d)
    \/ \E c \in BOOLEAN, r \in RssiValues, d \in BOOLEAN :
           CallUpdateConnection(c, r, d)
    \/ StateManager_init

SpecReboot == Init /\ [][NextReboot]_vars

(* The event log alone: any events file of up to MaxFileLines lines, an    *)
(* EventLog constructed on it with any window, then recent and add.        *)
SampleEvents ==
    {StateEvent(1, "lock_state", "unknown", "locked", "poll"),
     StateEvent(2, "door_state", "unknown", "open", "ble")}

FileLines == {JsonLine(e) : e \in SampleEvents} \cup {BlankLine, MalformedLine}

Files == UNION {[1 .. n -> FileLines] : n \in 0 .. MaxFileLines}

InitLog ==
    /\ LedgerIdle
    /\ file \in Files
    /\ maxMemory \in WindowSizes
    /\ SchedIdle
    /\ Unwired

NextLog ==
    \/ EventLog_init
    \/ \E count \in 0 .. MaxWindow + 1 : CallRecent(count)
    \/ \E e \in SampleEvents, d \in BOOLEAN : CallAdd(e, d)

SpecLog == InitLog /\ [][NextLog]_vars

(* The polling policy as a function: any quiet window, any hour, any       *)
(* decay up to MaxDecay, any readings of the monotonic clock up to         *)
(* MaxMono with the activity, if any, not after now.                       *)
InitPolicy ==
    /\ LedgerIdle
    /\ file = <<>>
    /\ maxMemory = DefaultMaxMemoryEvents
    /\ mono \in 1 .. MaxMono
    /\ \E la \in 0 .. MaxMono :
           /\ la <= mono
           /\ sched = [AdaptiveScheduler EXCEPT !.last_activity_time = la]
    /\ \E qs \in Hours, qe \in Hours, decay \in 1 .. MaxDecay :
           pollConfig = [PollConfig EXCEPT !.quiet_hours_start = qs,
                                           !.quiet_hours_end = qe,
                                           !.active_decay_sec = decay]
    /\ out = NoOut
    /\ Unwired

NextPolicy == \E hour \in Hours : CallGetNextPollInterval(hour)

SpecPolicy == InitPolicy /\ [][NextPolicy]_vars

(* The scheduler over time: activity, polls and battery polls marked as    *)
(* the monotonic clock advances, and the two queries.                      *)
InitSched ==
    /\ LedgerIdle
    /\ file = <<>>
    /\ maxMemory = DefaultMaxMemoryEvents
    /\ sched = AdaptiveScheduler
    /\ mono = 1
    /\ \E decay \in 1 .. MaxDecay, battery \in 1 .. MaxBatteryInterval :
           pollConfig = [PollConfig EXCEPT
                             !.active_decay_sec = decay,
                             !.battery_poll_interval_sec = battery]
    /\ out = NoOut
    /\ Unwired

NextSched ==
    \/ on_activity
    \/ mark_polled
    \/ mark_battery_polled
    \/ AdvanceMono
    \/ CallShouldPollBattery
    \/ \E hour \in {0, 3, 12} : CallGetNextPollInterval(hour)

SpecSched == InitSched /\ [][NextSched]_vars

(* The monitor with its ledger: one subscriber (the dashboard's,          *)
(* dashboard.py:45, or cmd_poll_once's, app.py:127), any configuration    *)
(* below; start, stop and poll_state called from outside, advertisements  *)
(* and notifications arriving while the scanner and the session run.      *)
Configs ==
    {Config("", "", ""), Config("", "aa:01", ""), Config("k", "aa:01", ""),
     Config("k", "", "Yale-1"), Config("k", "AA:01", "Yale-1")}

Advertisements ==
    {Advertisement("AA:01", "", ""), Advertisement("BB:02", "Yale-1", ""),
     Advertisement("BB:02", "", "Yale-1"),
     Advertisement("BB:02", "Other", "Yale-1"),
     Advertisement("BB:02", "", "")}

Notifications ==
    {Notification(Some("LOCKED"), None, None, None, None, None,
                  Some([rssi |-> Some(-70)])),
     Notification(None, None, None, None, None, None,
                  Some([rssi |-> Some(-70)])),
     Notification(Some("UNKNOWN_01"), Some("AJAR"),
                  Some([percentage |-> 80, voltage |-> Some(3)]),
                  Some([mode |-> "TIMER", duration |-> 30]),
                  Some([successful |-> FALSE]),
                  Some([model |-> "L3S", serial |-> "", firmware |-> "1.0"]),
                  None),
     Notification(None, None, None,
                  Some([mode |-> "OFF", duration |-> 0]), None,
                  Some([model |-> "L3S", serial |-> "7", firmware |-> "1.1"]),
                  None)}

\* the notifications that carry ConnectionInfo
ConnectedNotifications == {n \in Notifications : n.conn_info # None}

\* StateManager with the one subscriber registered
LedgerWatched ==
    /\ state = DoormanState
    /\ events = <<>>
    /\ callbacks = <<"returns">>
    /\ delivered = << <<>> >>
    /\ accepted = <<>>
    /\ clock = 0
    /\ call = NoCall
    /\ file = <<>>
    /\ maxMemory = DefaultMaxMemoryEvents

InitMonitor ==
    /\ LedgerWatched
    /\ SchedIdle
    /\ \E config \in Configs : monitor = YaleBLEMonitor(config)
    /\ link = NoLink
    /\ driver = NoTask
    /\ app = NoApp
    /\ dash = NoDashboard
    /\ plugin = NoPlugin

NextMonitor ==
    \/ CallStart
    \/ \E ok \in BOOLEAN : ScannerStartReturns(ok)
    \/ \E ok \in BOOLEAN : PushLockStartReturns(ok)
    \/ \E cancelOk \in BOOLEAN : CallStop(cancelOk)
    \/ \E ok \in BOOLEAN : ScannerStopReturns(ok)
    \/ \E ok \in BOOLEAN : DisconnectReturns(ok)
    \/ CallPollState
    \/ \E ok \in BOOLEAN : PollStateReturns(ok)
    \/ \E ad \in Advertisements : _on_advertisement(ad)
    \/ \E n \in Notifications : OnStateChange(n)

SpecMonitor == InitMonitor /\ [][NextMonitor]_vars

(* The monitor started and stopped any number of times, in any order.     *)
NextRestart ==
    \/ CallStart
    \/ CallStartAgain
    \/ \E ok \in BOOLEAN : ScannerStartReturns(ok)
    \/ \E ok \in BOOLEAN : PushLockStartReturns(ok)
    \/ \E cancelOk \in BOOLEAN : CallStop(cancelOk)
    \/ \E ok \in BOOLEAN : ScannerStopReturns(ok)
    \/ \E ok \in BOOLEAN : DisconnectReturns(ok)

SpecRestart == InitMonitor /\ [][NextRestart]_vars

(* The monitor started and stopped, with notifications of the session    *)
(* arriving while it runs and after stop().                                *)
NextStopped ==
    \/ CallStart
    \/ \E ok \in BOOLEAN : ScannerStartReturns(ok)
    \/ \E ok \in BOOLEAN : PushLockStartReturns(ok)
    \/ \E cancelOk \in BOOLEAN : CallStop(cancelOk)
    \/ \E ok \in BOOLEAN : ScannerStopReturns(ok)
    \/ \E ok \in BOOLEAN : DisconnectReturns(ok)
    \/ \E n \in Notifications : OnStateChange(n)
    \/ \E n \in Notifications : OnLateStateChange(n)

SpecStopped == InitMonitor /\ [][NextStopped]_vars

(* The scheduler's loop alone: run() given a callback that returns or     *)
(* raises, stop() and task.cancel() called from outside at any time,      *)
(* activity marked and time passing.                                      *)
InitDriver ==
    /\ LedgerIdle
    /\ file = <<>>
    /\ maxMemory = DefaultMaxMemoryEvents
    /\ SchedIdle
    /\ monitor = YaleBLEMonitor(Config("", "", ""))
    /\ link = NoLink
    /\ driver = create_task(NoTask, "callback")
    /\ app = NoApp
    /\ dash = NoDashboard
    /\ plugin = NoPlugin

DriverStep ==
    \/ \E hour \in {3, 12} : run_begin(hour)
    \/ \E raises \in BOOLEAN, hour \in {3, 12} : sleep_returns(raises, hour)
    \/ sleep_cancelled

NextDriver ==
    \/ DriverStep
    \/ CallSchedulerStop
    \/ CallTaskCancel
    \/ on_activity
    \/ AdvanceMono

SpecDriver == InitDriver /\ [][NextDriver]_vars

\* the event loop runs a task that is ready, and a sleep ends
FairDriver == SpecDriver /\ WF_vars(DriverStep)

(* The scheduler's loop in time: intervals of a few seconds, every sleep  *)
(* lasting exactly its interval, activity marked at any moment.           *)
TimedConfig ==
    [PollConfig EXCEPT !.active_interval_sec = 1,
                       !.normal_interval_sec = 2,
                       !.quiet_interval_sec = 3]

InitTimed ==
    /\ LedgerIdle
    /\ file = <<>>
    /\ maxMemory = DefaultMaxMemoryEvents
    /\ sched = AdaptiveScheduler
    /\ mono = 1
    /\ \E decay \in 1 .. MaxDecay :
           pollConfig = [TimedConfig EXCEPT !.active_decay_sec = decay]
    /\ out = NoOut
    /\ monitor = YaleBLEMonitor(Config("", "", ""))
    /\ link = NoLink
    /\ driver = create_task(NoTask, "callback")
    /\ app = NoApp
    /\ dash = NoDashboard
    /\ plugin = NoPlugin

NextTimed ==
    \/ \E hour \in {3, 12} : run_begin(hour)
    \/ \E raises \in BOOLEAN, hour \in {3, 12} : sleep_elapses(raises, hour)
    \/ CallSchedulerStop
    \/ on_activity
    \/ TimePasses

SpecTimed == InitTimed /\ [][NextTimed]_vars

(* run_app: the monitor, the scheduler's task calling poll_state, and the *)
(* shutdown.                                                               *)
InitApp ==
    /\ LedgerWatched
    /\ SchedIdle
    /\ \E config \in Configs : monitor = YaleBLEMonitor(config)
    /\ link = NoLink
    /\ driver = NoTask
    /\ app = RunApp
    /\ dash = NoDashboard
    /\ plugin = NoPlugin

NextApp ==
    \/ app_begin
    \/ app_started
    \/ app_shutdown
    \/ \E cancelOk \in BOOLEAN : app_stops_monitor(cancelOk)
    \/ app_stopped
    \/ \E ok \in BOOLEAN : ScannerStartReturns(ok)
    \/ \E ok \in BOOLEAN : PushLockStartReturns(ok)
    \/ \E ok \in BOOLEAN : ScannerStopReturns(ok)
    \/ \E ok \in BOOLEAN : DisconnectReturns(ok)
    \/ \E hour \in {3, 12} : run_begin(hour)
    \/ \E hour \in {3, 12} : sleep_returns_poll_state(hour)
    \/ \E ok \in BOOLEAN, hour \in {3, 12} : poll_state_returns(ok, hour)
    \/ sleep_cancelled
    \/ poll_state_cancelled
    \/ \E ad \in Advertisements : _on_advertisement(ad)
    \/ \E n \in ConnectedNotifications : OnStateChange(n)

SpecApp == InitApp /\ [][NextApp]_vars

(* The dashboard serving: its subscriber registered with the ledger, up   *)
(* to MaxClients stream clients connecting and leaving, up to              *)
(* MaxBroadcasts lock events accepted and broadcast.                       *)
Dashboard ==
    [_sse_clients |-> <<>>, handlers |-> [c \in 1 .. MaxClients |-> NoRequest],
     tasks |-> <<>>]

InitDash ==
    /\ LedgerWatched
    /\ SchedIdle
    /\ monitor = YaleBLEMonitor(Config("", "", ""))
    /\ link = NoLink
    /\ driver = NoTask
    /\ app = NoApp
    /\ dash = Dashboard
    /\ plugin = NoPlugin

NextDash ==
    \/ \E v \in LockValues : ServedUpdateLockState(v)
    \/ \E k \in 1 .. MaxBroadcasts : broadcast_begin(k)
    \/ \E k \in 1 .. MaxBroadcasts, ok \in BOOLEAN : write_returns(k, ok)
    \/ \E c \in 1 .. MaxClients : _handle_sse(c)
    \/ \E c \in 1 .. MaxClients : initial_written(c)
    \/ \E c \in 1 .. MaxClients : sse_handler_exits(c)
    \/ \E c \in 1 .. MaxClients : connection_lost(c)

SpecDash == InitDash /\ [][NextDash]_vars


(* The plugin's active-hours polling alone: any options, the entry set up, *)
(* checked every minute at any time of a weekday or a weekend day, polled, *)
(* unloaded and reloaded.                                                  *)
InitPlugin ==
    /\ LedgerIdle
    /\ file = <<>>
    /\ maxMemory = DefaultMaxMemoryEvents
    /\ SchedIdle
    /\ monitor = YaleBLEMonitor(Config("", "", ""))
    /\ link = NoLink
    /\ driver = NoTask
    /\ app = NoApp
    /\ dash = NoDashboard
    /\ \E o \in Options : plugin = ConfigEntry(o)

NextPlugin ==
    \/ \E now \in Nows : _setup_active_hours(now)
    \/ \E now \in Nows : minute_check(now)
    \/ \E h \in plugin.poll_timers : poll_timer_fires(h)
    \/ \E ok \in BOOLEAN : _async_poll_lock_returns(ok)
    \/ update_task_done
    \/ async_unload_entry
    \/ async_reload

SpecPlugin == InitPlugin /\ [][NextPlugin]_vars

----------------------------------------------------------------------------
(* Properties of the ledger, checked under Spec *)

\* the events a step hands to EventLog.add
NewEvents == SubSeq(accepted', Len(accepted) + 1, Len(accepted'))

\* the events subscriber i is called with during a step
NewlySeen(i) ==
    [k \in 1 .. Len(delivered'[i]) - Len(delivered[i]) |->
        delivered'[i][Len(delivered[i]) + k].event]

LedgerUnchanged == UNCHANGED <<state, events, file, accepted, delivered>>

Mutators ==
    {"update_lock_state", "update_door_state", "update_battery",
     "update_doorbell"}

\* a step that is a call of mutator op with a value that differs (or not)
\* from the stored one: it returns true, emitting the event old -> new of
\* that kind, iff the value differs, and changes nothing otherwise
DedupStep(differs, kind, old, new) ==
    /\ call'.ret = differs
    /\ ~call'.raised
    /\ differs =>
          /\ NewEvents # <<>>
          /\ NewEvents[1].event_type = kind
          /\ NewEvents[1].old_value = old
          /\ NewEvents[1].new_value = new
          /\ \A i \in 1 .. Len(callbacks) : NewlySeen(i) # <<>>
    /\ ~differs => LedgerUnchanged

\* C1: a call of update_lock_state, update_door_state, update_battery or
\* update_doorbell emits a ChangeEvent and returns true iff its value
\* differs from the stored one; an equal value returns false, emits
\* nothing, notifies nobody and leaves snapshot and log unchanged, so the
\* second of two consecutive calls with one value emits nothing.
C1_Deduplication ==
    [][/\ call'.op = "update_lock_state" =>
              DedupStep(call'.str # state.lock_state, "lock_state",
                        state.lock_state, call'.str)
       /\ call'.op = "update_door_state" =>
              DedupStep(call'.str # state.door_state, "door_state",
                        state.door_state, call'.str)
       /\ call'.op = "update_battery" =>
              DedupStep(call'.num # state.battery_level, "battery",
                        IF state.battery_level = <<>> THEN "unknown"
                        ELSE ToString(state.battery_level[1]),
                        ToString(call'.num[1]))
       /\ call'.op = "update_doorbell" =>
              DedupStep(call'.flag # state.doorbell_ringing, "doorbell",
                        IF state.doorbell_ringing THEN "ringing" ELSE "idle",
                        IF call'.flag THEN "ringing" ELSE "idle")
       /\ (/\ call'.op \in Mutators
           /\ call.op = call'.op
           /\ call.str = call'.str
           /\ call.num = call'.num
           /\ call.flag = call'.flag) =>
              (~call'.ret /\ LedgerUnchanged)]_vars

\* a duplicate lock update, rejected after the first was accepted and
\* delivered to a subscriber
C1_Witness ==
    /\ call.op = "update_lock_state"
    /\ ~call.ret
    /\ call.str = state.lock_state
    /\ Len(accepted) = 1
    /\ accepted[1].event_type = "lock_state"
    /\ Len(callbacks) >= 1
    /\ Len(delivered[1]) = 1

\* the events subscriber i was called with, in the order of the calls
SeenBy(i) == [k \in 1 .. Len(delivered[i]) |-> delivered[i][k].event]

\* C2: every subscriber is delivered exactly the accepted events, in
\* acceptance (log) order, also when a mutator is invoked from inside
\* another subscriber's callback.
C2_DeliveryInAcceptanceOrder ==
    \A i \in 1 .. Len(callbacks) : SeenBy(i) = accepted

\* how often event e occurs in sequence s
Occurrences(s, e) == Cardinality({k \in 1 .. Len(s) : s[k] = e})

EachSeenOnce(evs, seen) ==
    /\ Len(seen) = Len(evs)
    /\ \A k \in 1 .. Len(evs) : Occurrences(seen, evs[k]) = 1

\* C3 as stated: every accepted event is in the in-memory window, is in
\* the durable file exactly once, and was delivered exactly once to every
\* subscriber.
C3_LogAndNotifyBoth ==
    /\ events = accepted
    /\ file = [k \in 1 .. Len(accepted) |->
                  [kind |-> "json", obj |-> accepted[k]]]
    /\ \A i \in 1 .. Len(callbacks) : EachSeenOnce(accepted, SeenBy(i))

\* C3 amended: every accepted mutation appends exactly one event to the
\* in-memory window and every subscriber is invoked exactly once with it;
\* the durable file gains exactly the lines of the step's events when
\* the write succeeds and nothing when it fails.  (A subscriber that
\* re-enters makes a second accepted mutation, source "callback", in the
\* same step.)
C3_MemoryAndNotifyAlways ==
    [][/\ SubSeq(accepted', 1, Len(accepted)) = accepted
       /\ events' = events \o NewEvents
       /\ \/ file' = file
          \/ file' = file \o [k \in 1 .. Len(NewEvents) |->
                                 [kind |-> "json", obj |-> NewEvents[k]]]
       /\ \A i \in 1 .. Len(callbacks) :
              EachSeenOnce(NewEvents, NewlySeen(i))
       /\ (call'.ret \/ state'.connected # state.connected) =>
              /\ Len(NewEvents) >= 1
              /\ NewEvents[1].source # "callback"
       /\ \A k \in 2 .. Len(NewEvents) : NewEvents[k].source = "callback"
       /\ (\A i \in 1 .. Len(callbacks) : callbacks[i] # "reenters") =>
              Len(NewEvents) <= 1]_vars

\* two accepted mutations, the first written to the file and the second
\* not, each delivered once to two subscribers
C3_Witness ==
    /\ Len(accepted) = 2
    /\ events = accepted
    /\ file = <<[kind |-> "json", obj |-> accepted[1]]>>
    /\ Len(callbacks) = 2
    /\ SeenBy(1) = accepted
    /\ SeenBy(2) = accepted

\* C4: update_connection always overwrites the signal strength, and emits
\* a connection event (source system, old and new the two opposite
\* labels) iff the connected flag flips; the same flag again emits none.
C4_ConnectionFlip ==
    [][call'.op = "update_connection" =>
         /\ state'.rssi = call'.num
         /\ state'.connected = call'.flag
         /\ call'.flag # state.connected =>
               /\ Len(NewEvents) = 1
               /\ NewEvents[1].event_type = "connection"
               /\ NewEvents[1].source = "system"
               /\ NewEvents[1].new_value =
                      (IF call'.flag THEN "connected" ELSE "disconnected")
               /\ NewEvents[1].old_value =
                      (IF call'.flag THEN "disconnected" ELSE "connected")
               /\ events' = events \o NewEvents
               /\ \A i \in 1 .. Len(callbacks) : NewlySeen(i) = NewEvents
         /\ call'.flag = state.connected =>
               UNCHANGED <<events, file, accepted, delivered>>]_vars

\* connected with a signal strength, then the same flag again with none:
\* one event only, and the strength overwritten
C4_Witness ==
    /\ call.op = "update_connection"
    /\ clock = 2
    /\ state.connected
    /\ state.rssi = <<>>
    /\ Len(accepted) = 1
    /\ accepted[1].new_value = "connected"
    /\ accepted[1].timestamp = 1
    /\ Len(callbacks) >= 1
    /\ Len(delivered[1]) = 1

\* what the snapshot holds for the value argument of the latest call
StoredArgument(c, st) ==
    CASE c.op = "update_lock_state" -> st.lock_state = c.str
      [] c.op = "update_door_state" -> st.door_state = c.str
      [] c.op = "update_battery" -> st.battery_level = c.num
      [] c.op = "update_doorbell" -> st.doorbell_ringing = c.flag
      [] c.op = "update_connection" -> st.connected = c.flag
      [] OTHER -> TRUE

\* the mutator completed: no exception left it, it returned true (the
\* four that return a value), the snapshot holds the new value, the event
\* is in the in-memory window and every subscriber was called with it
Completed ==
    /\ ~call'.raised
    /\ call'.op \in Mutators => call'.ret
    /\ StoredArgument(call', state')
    /\ events' = events \o NewEvents
    /\ \A i \in 1 .. Len(callbacks) :
           \E k \in 1 .. Len(NewlySeen(i)) : NewlySeen(i)[k] = NewEvents[1]

\* C5: when a subscriber's callback raises during the notification of an
\* accepted mutation, the mutator still completes and every other
\* subscriber is still invoked with the event.
C5_SubscriberFaultIsolated ==
    [][(/\ NewEvents # <<>>
        /\ \E i \in 1 .. Len(callbacks) : callbacks[i] = "raises") =>
           Completed]_vars

\* a raising subscriber registered before one that returns; the second
\* was still called
C5_Witness ==
    /\ Len(callbacks) = 2
    /\ callbacks[1] = "raises"
    /\ callbacks[2] = "returns"
    /\ call.op \in Mutators
    /\ call.ret
    /\ ~call.raised
    /\ Len(accepted) = 1
    /\ SeenBy(2) = accepted

\* C6: when the durable append fails during an accepted mutation, the
\* mutator does not raise, the snapshot holds the new value, the event is
\* in the in-memory window and all subscribers are notified.
C6_WriteFaultTolerated ==
    [][(NewEvents # <<>> /\ file' = file) => Completed]_vars

\* update_door_state("open") with an unwritable log
C6_Witness ==
    /\ call.op = "update_door_state"
    /\ call.str = "open"
    /\ call.ret
    /\ file = <<>>
    /\ state.door_state = "open"
    /\ Len(events) = 1
    /\ events[1].new_value = "open"
    /\ Len(callbacks) = 2
    /\ SeenBy(1) = events
    /\ SeenBy(2) = events

----------------------------------------------------------------------------
(* Properties of the event log, checked under SpecLog *)

WellFormed(lines) == \A k \in 1 .. Len(lines) : lines[k].kind = "json"

\* C7: on a durable log of n well-formed lines, a freshly constructed
\* event log with window N answers recent(N) with exactly the last
\* min(n, N) durable events, in log order.
C7_RestartRecovery ==
    (/\ call.op = "EventLog"
     /\ WellFormed(file)
     /\ out.op = "recent"
     /\ out.count = maxMemory) =>
        LET n == Len(file)
            m == IF n < maxMemory THEN n ELSE maxMemory
        IN out.result = [k \in 1 .. m |-> file[n - m + k].obj]

\* the last n elements of s: none of them when n = 0
Newest(s, n) ==
    IF n >= Len(s) THEN s ELSE SubSeq(s, Len(s) - n + 1, Len(s))

\* C30: for every window size max_memory_events, the in-memory window
\* holds at most that many events, and they are exactly the most recently
\* loaded or accepted ones in order: a construction on a well-formed file
\* keeps the newest of its events, and an add keeps the newest of the
\* window with the added event.
C30_WindowBounded ==
    /\ [](call.op # "none" => Len(events) <= maxMemory)
    /\ [][(call.op = "none" /\ call'.op = "EventLog" /\ WellFormed(file)) =>
              events' = Newest([k \in 1 .. Len(file) |-> file[k].obj],
                               maxMemory)]_vars
    /\ [][accepted' # accepted =>
              events' = Newest(Append(events, accepted'[Len(accepted')]),
                               maxMemory)]_vars

\* C31: for every count >= 0, recent(count) answers with exactly the last
\* min(count, size of the window) events of the window in acceptance
\* order, never more than count of them.
C31_RecentReturnsNewest ==
    out.op = "recent" =>
        /\ out.result = Newest(events, out.count)
        /\ Len(out.result) <= out.count

\* the events of the well-formed lines among lines, in order
RECURSIVE WellFormedEvents(_)

WellFormedEvents(lines) ==
    IF lines = <<>>
    THEN <<>>
    ELSE IF Head(lines).kind = "json"
         THEN <<Head(lines).obj>> \o WellFormedEvents(Tail(lines))
         ELSE WellFormedEvents(Tail(lines))

\* C32: constructing the event log never raises, whatever the events file
\* holds, and the constructed window holds, as its newest events and in
\* file order, every well-formed event line among the last N lines of the
\* file, also when a line of that tail is malformed.
C32_LoadSkipsMalformedLines ==
    call.op = "EventLog" =>
        LET want == WellFormedEvents(Newest(file, maxMemory))
        IN /\ Len(events) >= Len(want)
           /\ Newest(events, Len(want)) = want

----------------------------------------------------------------------------
(* Further properties of the ledger, checked under Spec and SpecFields *)

EventKinds == {"lock_state", "door_state", "battery", "doorbell", "connection"}

\* the field of a snapshot an event of the kind is about, as the event's
\* old_value and new_value spell it
Shown(snapshot, kind) ==
    CASE kind = "lock_state" -> snapshot.lock_state
      [] kind = "door_state" -> snapshot.door_state
      [] kind = "battery" -> BatteryStr(snapshot.battery_level)
      [] kind = "doorbell" -> DoorbellStr(snapshot.doorbell_ringing)
      [] kind = "connection" -> ConnectionStr(snapshot.connected)

\* that field after exactly the first n accepted events
Replayed(kind, n) ==
    LET of == {j \in 1 .. n : accepted[j].event_type = kind}
    IN IF of = {}
       THEN Shown(DoormanState, kind)
       ELSE accepted[CHOOSE j \in of : \A m \in of : m <= j].new_value

\* C24: every subscriber invocation sees an untorn snapshot: the field
\* the event is about holds the event's new value, and every field holds
\* what the mutations accepted up to and including that event made of
\* it, also when mutators are invoked from inside a subscriber's callback.
C24_UntornSnapshot ==
    \A i \in 1 .. Len(delivered) : \A k \in 1 .. Len(delivered[i]) :
        LET p == delivered[i][k]
            n == CHOOSE j \in 1 .. Len(accepted) : accepted[j] = p.event
        IN /\ Shown(p.snapshot, p.event.event_type) = p.event.new_value
           /\ \A kind \in EventKinds :
                  Shown(p.snapshot, kind) = Replayed(kind, n)

\* C27: every mutator that modifies the snapshot recomputes last_updated
\* in the same step: a step that changes the snapshot reads the time and
\* leaves it in last_updated.
C27_EveryMutationStamped ==
    [][state' # state =>
           /\ clock' = clock + 1
           /\ state'.last_updated = clock']_vars

\* last_activity_type after an accepted lock, door or doorbell event
ActivityTag(event) ==
    CASE event.event_type = "lock_state" -> event.new_value
      [] event.event_type = "door_state" -> DoorActivity(event.new_value)
      [] OTHER -> "doorbell"

\* of is the positions of the activities among the events a step
\* accepted: without any the step keeps last_activity and
\* last_activity_type, and otherwise it leaves the time of the step and
\* the tag of the latest of them
ActivityFollows(of) ==
    IF of = {}
    THEN /\ state'.last_activity = state.last_activity
         /\ state'.last_activity_type = state.last_activity_type
    ELSE /\ clock' = clock + 1
         /\ state'.last_activity = clock'
         /\ state'.last_activity_type =
                ActivityTag(NewEvents[CHOOSE k \in of : \A m \in of : m <= k])

\* the lock, door and doorbell events of the step
Transitions ==
    {k \in 1 .. Len(NewEvents) :
        NewEvents[k].event_type \in {"lock_state", "door_state", "doorbell"}}

\* those but the doorbell ceasing to ring
TransitionsButBellOff ==
    {k \in Transitions :
        NewEvents[k].event_type = "doorbell" =>
            NewEvents[k].new_value = "ringing"}

\* C28 as stated: every accepted transition made by update_lock_state,
\* update_door_state or update_doorbell updates last_activity and
\* last_activity_type; battery and connection mutations never change
\* them.
C28_EveryTransitionIsActivity == [][ActivityFollows(Transitions)]_vars

\* C28 amended: every accepted lock or door transition, and every
\* accepted doorbell transition to ringing, updates last_activity and
\* last_activity_type; a doorbell that stops ringing, a battery or a
\* connection mutation, and a rejected call never change them.
C28_ActivityButBellOff == [][ActivityFollows(TransitionsButBellOff)]_vars

\* the doorbell rang and then stopped: the stop is recorded as an update
\* and not as an activity
C28_Witness ==
    /\ call.op = "update_doorbell"
    /\ call.ret
    /\ ~state.doorbell_ringing
    /\ state.last_activity_type = "doorbell"
    /\ state.last_activity = 1
    /\ state.last_updated = 2

\* C38: update_battery deduplicates on the level only.  A call whose
\* level equals the stored one returns False, adds no event and leaves the
\* snapshot, the stored voltage included, as it was, also when the
\* voltage supplied differs from the stored one; an accepted call stores
\* the level and overwrites the stored voltage with the one supplied,
\* which may be None.
C38_BatteryDedupOnLevel ==
    [][call'.op = "update_battery" =>
          IF call'.num = state.battery_level
          THEN /\ ~call'.ret
               /\ accepted' = accepted
               /\ state' = state
          ELSE /\ call'.ret
               /\ Len(accepted') = Len(accepted) + 1
               /\ state'.battery_level = call'.num
               /\ state'.battery_voltage = call'.voltage]_vars

\* a call with the stored level and a voltage other than the stored one
\* was rejected, after an accepted call had stored a level
C38_Witness ==
    /\ call.op = "update_battery"
    /\ ~call.ret
    /\ call.num = state.battery_level
    /\ call.voltage # state.battery_voltage
    /\ \E i \in 1..Len(accepted) : accepted[i].event_type = "battery"

----------------------------------------------------------------------------
(* Properties of the ledger over restarts, checked under SpecReboot *)

\* the value of each kind of event in DoormanState(), as the events
\* spell it
InitialValue(event_type) ==
    CASE event_type = "doorbell" -> DoorbellStr(DoormanState.doorbell_ringing)
      [] event_type = "connection" -> ConnectionStr(DoormanState.connected)
      [] event_type = "battery" -> BatteryStr(DoormanState.battery_level)
      [] event_type = "door_state" -> DoormanState.door_state
      [] OTHER -> DoormanState.lock_state

\* each event of evs goes on from the latest earlier event of its kind
\* in evs, or from the initial value, and changes the value
Chained(evs) ==
    \A k \in 1 .. Len(evs) :
        LET earlier == {j \in 1 .. k - 1 :
                           evs[j].event_type = evs[k].event_type}
            latest == CHOOSE j \in earlier : \A i \in earlier : i <= j
        IN /\ evs[k].old_value =
                  IF earlier = {}
                  THEN InitialValue(evs[k].event_type)
                  ELSE evs[latest].new_value
           /\ evs[k].old_value # evs[k].new_value

\* C36 as stated: in every reachable state of the event window, also
\* after the ledger was constructed again on the events file, each
\* event's old_value is the new_value of the latest earlier event of its
\* kind in the window (the kind's initial value when there is none), and
\* differs from its new_value.
C36_WindowChained == Chained(events)

\* C36, amended: the newest events of the window are the events the
\* ledger has accepted since it was constructed, and each of these has as
\* old_value the new_value of the latest earlier event of its kind
\* accepted since the construction (the kind's initial value when there
\* is none) and differs from its new_value; the events loaded from the
\* file are not linked to them.
C36_ChainedSinceConstruction ==
    /\ Newest(events, Len(accepted)) = Newest(accepted, Len(events))
    /\ Chained(accepted)

\* a ledger constructed on a file with events has accepted a lock event
C36_Witness ==
    /\ Len(events) > Len(accepted)
    /\ \E k \in 1 .. Len(accepted) : accepted[k].event_type = "lock_state"

----------------------------------------------------------------------------
(* Properties of the polling policy, checked under SpecPolicy *)

RecentActivity ==
    /\ sched.last_activity_time # 0
    /\ mono - sched.last_activity_time < pollConfig.active_decay_sec

\* the hours of the quiet window [start, end), across midnight when
\* start > end
QuietWindow ==
    IF pollConfig.quiet_hours_start < pollConfig.quiet_hours_end
    THEN pollConfig.quiet_hours_start .. pollConfig.quiet_hours_end - 1
    ELSE (pollConfig.quiet_hours_start .. 23)
             \cup (0 .. pollConfig.quiet_hours_end - 1)

\* C8: whenever an activity was recorded less than active_decay_sec ago,
\* get_next_poll_interval returns the active interval, at every hour,
\* those of the quiet window included.
C8_ActivePrecedence ==
    (out.op = "get_next_poll_interval" /\ RecentActivity) =>
        out.result = pollConfig.active_interval_sec

\* recent activity at hour 23 of the quiet window 22..6
C8_Witness ==
    /\ out.op = "get_next_poll_interval"
    /\ RecentActivity
    /\ pollConfig.quiet_hours_start = 22
    /\ pollConfig.quiet_hours_end = 6
    /\ out.hour = 23
    /\ out.result = 120

\* C9: for every hour, every quiet window with start # end and every
\* (now, lastActivity), get_next_poll_interval is the active interval
\* when lastActivity # 0 and now - lastActivity < decay (strictly), else
\* the quiet interval when the hour is in the window, else the normal one.
C9_PriorityReference ==
    (/\ out.op = "get_next_poll_interval"
     /\ pollConfig.quiet_hours_start # pollConfig.quiet_hours_end) =>
        out.result =
            (IF RecentActivity THEN pollConfig.active_interval_sec
             ELSE IF out.hour \in QuietWindow
                  THEN pollConfig.quiet_interval_sec
                  ELSE pollConfig.normal_interval_sec)

\* window 22..6, hour 3, the activity exactly active_decay_sec ago: quiet
C9_Witness ==
    /\ out.op = "get_next_poll_interval"
    /\ pollConfig.quiet_hours_start = 22
    /\ pollConfig.quiet_hours_end = 6
    /\ out.hour = 3
    /\ sched.last_activity_time # 0
    /\ mono - sched.last_activity_time = pollConfig.active_decay_sec
    /\ out.result = 1800

\* the hours of the half-open window [start, end): none when start = end
HalfOpenWindow ==
    IF pollConfig.quiet_hours_start = pollConfig.quiet_hours_end
    THEN {}
    ELSE QuietWindow

\* C22: an hour is quiet iff it lies in the half-open window
\* [quiet_hours_start, quiet_hours_end); with start = end the window is
\* empty, no hour is quiet and get_next_poll_interval never returns the
\* quiet interval.
C22_EmptyWindowNeverQuiet ==
    (out.op = "get_next_poll_interval" /\ ~RecentActivity) =>
        out.result =
            (IF out.hour \in HalfOpenWindow
             THEN pollConfig.quiet_interval_sec
             ELSE pollConfig.normal_interval_sec)

----------------------------------------------------------------------------
(* Properties of the scheduler over time, checked under SpecSched *)

BatteryElapsed ==
    mono - sched.last_battery_poll_time
        >= pollConfig.battery_poll_interval_sec

\* C10 as stated: should_poll_battery returns true only when at least
\* battery_poll_interval_sec has elapsed since the last battery poll (the
\* never-polled scheduler holding 0 as that time).
C10_BatteryOnlyAfterInterval ==
    (out.op = "should_poll_battery" /\ out.result) => BatteryElapsed

\* C10 amended: should_poll_battery returns true iff no battery poll has
\* been marked yet or at least battery_poll_interval_sec has elapsed
\* since the last one, whatever lastPoll and lastActivity are.
C10_BatteryCadence ==
    out.op = "should_poll_battery" =>
        (out.result <=>
            (sched.last_battery_poll_time = 0 \/ BatteryElapsed))

\* refused: a battery poll was marked less than the interval ago, while
\* a main poll and an activity were marked since
C10_Witness ==
    /\ out.op = "should_poll_battery"
    /\ ~out.result
    /\ sched.last_battery_poll_time # 0
    /\ sched.last_poll_time > sched.last_battery_poll_time
    /\ sched.last_activity_time > sched.last_battery_poll_time

----------------------------------------------------------------------------
(* Properties of the scheduler's loop, checked under SpecDriver, and      *)
(* under FairDriver where they say that something happens                  *)

\* the step invokes the poll callback
PollAttempt == driver'.attempt # driver.attempt

\* C11: a poll callback that raises never ends the loop: the step in
\* which it raises leaves the running loop suspended in a sleep of the
\* interval computed anew, and from there, unless the driver is stopped
\* or cancelled, the callback is invoked again.
C11_PollFailureKeepsLoop ==
    /\ [][(PollAttempt /\ driver'.last = "raised") =>
             /\ driver'._running
             /\ driver'.pc = "sleeping"
             /\ driver'.interval \in
                    {get_next_poll_interval(sched', mono', hour, pollConfig')
                         : hour \in Hours}]_vars
    /\ \A b \in BOOLEAN :
           (driver.last = "raised" /\ driver.attempt = b) ~>
               (\/ driver.attempt # b
                \/ ~driver._running
                \/ driver.cancel
                \/ driver.pc = "done")

\* an even number of invocations, every one of which raised, and the
\* loop asleep again
C11_Witness ==
    /\ driver.last = "raised"
    /\ ~driver.attempt
    /\ sched.last_poll_time = 0
    /\ driver._running
    /\ driver.pc = "sleeping"

\* C19: once stop() has been called on a driver suspended in its sleep,
\* the poll callback is never invoked again: the driver stays stopped and
\* leaves the sleep only to end the loop, without a final poll.
C19_NoPollAfterStopInSleep ==
    [][(~driver._running /\ driver.pc \in {"sleeping", "done"}) =>
          /\ ~PollAttempt
          /\ ~driver'._running
          /\ driver'.pc \in {"sleeping", "done"}
          /\ driver'.last = driver.last
          /\ sched'.last_poll_time = sched.last_poll_time]_vars

\* the callback had returned once; the driver was then stopped in its
\* sleep, never cancelled, and the sleep's end ended the loop
C19_Witness ==
    /\ driver.pc = "done"
    /\ ~driver._running
    /\ call.op = "run"
    /\ call.str = "woke"
    /\ driver.last = "returned"
    /\ driver.attempt

\* C20: stop() by itself cancels the pending sleep: the step in which a
\* sleeping driver is stopped leaves a cancellation pending on its task,
\* and a stopped driver leaves its sleep for the end of the loop through
\* that cancellation, not through the sleep running to its end.
C20_StopCancelsSleep ==
    [][/\ (driver.pc = "sleeping" /\ driver._running /\ ~driver'._running)
              => driver'.cancel
       /\ (driver.pc = "sleeping" /\ ~driver._running
              /\ driver'.pc = "done") => driver.cancel]_vars

\* C37: when stop() was called before the task of run() has executed its
\* first step, and the task is not cancelled, run() ends in that first
\* step: it invokes no poll callback and does not go to sleep.
C37_StopBeforeFirstStep ==
    [][(/\ driver.pc = "created"
        /\ call.op = "scheduler_stop"
        /\ ~driver.cancel
        /\ driver'.pc # "created") => driver'.pc = "done"]_vars

----------------------------------------------------------------------------
(* Properties of the scheduler's loop in time, checked under SpecTimed *)

\* the driver sleeps an interval of the normal or the quiet mode, and an
\* activity was recorded since that sleep began
ActivityDuringLongSleep ==
    /\ driver.pc = "sleeping"
    /\ driver.interval # pollConfig.active_interval_sec
    /\ sched.last_activity_time # 0
    /\ sched.last_activity_time >= driver.wake - driver.interval

\* C23: when an activity is recorded while the driver sleeps a normal or
\* quiet interval, the next invocation of the poll callback comes no
\* later than active_interval_sec after that activity.
C23_ActivityShortensSleep ==
    [][(ActivityDuringLongSleep /\ PollAttempt) =>
           mono <= sched.last_activity_time
                       + pollConfig.active_interval_sec]_vars

----------------------------------------------------------------------------
(* Properties of the monitor, checked under SpecMonitor *)

\* the step is poll_state beginning (stage "reading" or "skipped") or
\* ending (stage "ok" or "failed")
PollStep(stage) ==
    /\ call'.op = "poll_state"
    /\ call'.str = stage
    /\ out'.op = "none"

\* C12: when the read of poll_state fails, poll_state returns normally
\* and the ledger's connected flag is false afterwards; when the monitor
\* is not running or has no session, poll_state starts no read and leaves
\* the ledger as it is.
C12_PollStateContained ==
    [][/\ PollStep("failed") =>
              /\ ~call'.raised
              /\ ~state'.connected
              /\ monitor'.poll = "idle"
       /\ PollStep("skipped") =>
              /\ ~(monitor._push_lock /\ monitor._running)
              /\ monitor'.poll = monitor.poll
              /\ LedgerUnchanged
              /\ clock' = clock
       /\ (monitor.poll = "idle" /\ monitor'.poll = "reading") =>
              (monitor._push_lock /\ monitor._running)
       /\ (~(monitor._push_lock /\ monitor._running)
              /\ call'.op = "poll_state" /\ out'.op = "none"
              /\ monitor.poll = "idle") => PollStep("skipped")]_vars

\* a read that failed on a running monitor whose ledger had been told of
\* a locked lock: poll_state returned and the ledger says disconnected
C12_Witness ==
    /\ call.op = "poll_state"
    /\ call.str = "failed"
    /\ ~call.raised
    /\ monitor._running
    /\ state.lock_state = "locked"
    /\ ~state.connected
    /\ state.last_updated = clock

\* what the subscribers were shown in the step: for each, the snapshots
\* it was called with
NewSnapshots(i) ==
    [k \in 1 .. Len(delivered'[i]) - Len(delivered[i]) |->
        delivered'[i][Len(delivered[i]) + k].snapshot]

\* the one connection event of the step says disconnected and every
\* subscriber was called with it and a snapshot that says so
DisconnectNotified ==
    /\ Len(NewEvents) = 1
    /\ NewEvents[1].event_type = "connection"
    /\ NewEvents[1].old_value = "connected"
    /\ NewEvents[1].new_value = "disconnected"
    /\ \A i \in 1 .. Len(callbacks) :
           /\ NewlySeen(i) = NewEvents
           /\ ~NewSnapshots(i)[1].connected

\* C13 as stated: whenever a poll fails, observers see connected false
\* and are notified of a connection event (new value disconnected) for
\* that failure.
C13_EveryFailureNotified ==
    [][PollStep("failed") =>
          (~state'.connected /\ DisconnectNotified)]_vars

\* C13 amended: after a failed poll the ledger says disconnected, and the
\* observers are notified of a connection event (connected ->
\* disconnected) for it iff the ledger said connected when the poll
\* failed; a failure found disconnected emits nothing.
C13_FailureNotifiedOnFlip ==
    [][PollStep("failed") =>
          /\ ~state'.connected
          /\ state.connected => DisconnectNotified
          /\ ~state.connected =>
                 UNCHANGED <<events, file, accepted, delivered>>]_vars

\* the ledger was connected, the poll failed, and the subscriber's last
\* call carries the disconnection stamped with this instant
C13_Witness ==
    /\ call.op = "poll_state"
    /\ call.str = "failed"
    /\ Len(accepted) >= 2
    /\ accepted[Len(accepted)].new_value = "disconnected"
    /\ accepted[Len(accepted)].timestamp = clock
    /\ SeenBy(1) = accepted
    /\ ~delivered[1][Len(accepted)].snapshot.connected

\* the step is a call of start()
StartCalled ==
    /\ monitor.pc = "idle"
    /\ call'.op = "start"
    /\ call'.str \in {"begun", "no_key"}
    /\ out'.op = "none"

\* C14: start() without a provisioned key is a no-op: no session and no
\* scanner is created, running and deviceFound stay false, and the
\* ledger is not touched (no event, no notification).
C14_StartWithoutKey ==
    /\ [](monitor.config.lock_key = "" =>
             /\ link.session = "none"
             /\ link.scanner = "none"
             /\ ~monitor._push_lock
             /\ ~monitor._scanner
             /\ ~monitor._running
             /\ ~monitor._device_found)
    /\ [][(StartCalled /\ monitor.config.lock_key = "") =>
             /\ call'.str = "no_key"
             /\ ~call'.raised
             /\ UNCHANGED <<monitor, link, clock>>
             /\ LedgerUnchanged]_vars

\* start() was called on a monitor configured with an address and no key
C14_Witness ==
    /\ call.op = "start"
    /\ call.str = "no_key"
    /\ monitor.config.lock_address = "aa:01"
    /\ monitor.config.lock_key = ""
    /\ link = NoLink
    /\ ~monitor._running
    /\ state = DoormanState
    /\ accepted = <<>>
    /\ delivered = << <<>> >>

\* the latest call was stop(), it is over, and the step is stop() again
StopAgain ==
    /\ call.op = "stop"
    /\ monitor.pc = "idle"
    /\ call'.op = "stop"
    /\ out'.op = "none"

\* C15: stop() is idempotent: a second stop() leaves the monitor, the
\* session, the scanner and the ledger as the first left them, cancels
\* and tears down nothing, emits no event and does not fail.
C15_StopIdempotent ==
    [][StopAgain =>
          /\ ~call'.raised
          /\ call'.str = "done"
          /\ monitor' = monitor
          /\ link'.session = link.session
          /\ link'.scanner = link.scanner
          /\ link'.teardown = {}
          /\ LedgerUnchanged]_vars

\* C16: stop() always ends with running false, no session handle, no
\* cancel callback, no scanner, deviceFound false and the ledger
\* disconnected, whichever of its teardown steps raises; no error of a
\* teardown step leaves stop().
C16_StopAlwaysCompletes ==
    (call.op = "stop" /\ monitor.pc = "idle") =>
        /\ ~call.raised
        /\ call.str = "done"
        /\ ~monitor._running
        /\ ~monitor._push_lock
        /\ ~monitor._cancel_push_lock
        /\ ~monitor._scanner
        /\ ~monitor._device_found
        /\ ~state.connected

\* an address in lower case
Lower(a) ==
    CASE a = "AA:01" -> "aa:01"
      [] a = "BB:02" -> "bb:02"
      [] OTHER -> a

\* the advertisement identifies the configured target: by its address,
\* whatever the case of the letters, or by the device's or the
\* advertised name
TargetIdentified(ad) ==
    \/ /\ monitor.config.lock_address # ""
       /\ Lower(ad.address) = Lower(monitor.config.lock_address)
    \/ /\ monitor.config.lock_name # ""
       /\ \/ ad.name = monitor.config.lock_name
          \/ ad.local_name = monitor.config.lock_name

\* C17: an advertisement is forwarded to the session only when the
\* monitor is running with a started session that no stop() has begun to
\* tear down, no start() or stop() is in flight, and the advertisement
\* identifies the configured target.
C17_ForwardOnlyWhenLive ==
    (out.op = "_on_advertisement" /\ out.forwarded) =>
        /\ monitor._running
        /\ monitor._push_lock
        /\ monitor.pc = "idle"
        /\ link.session = "started"
        /\ link.teardown = {}
        /\ TargetIdentified(out.ad)

\* an advertisement of AA:01 forwarded by a running monitor configured
\* with the address aa:01
C17_Witness ==
    /\ out.op = "_on_advertisement"
    /\ out.forwarded
    /\ out.ad.address = "AA:01"
    /\ monitor.config.lock_address = "aa:01"
    /\ monitor._device_found
    /\ monitor._running

\* C29: in every reachable state the snapshot's lock_state is one of
\* locked, unlocked, locking, unlocking, jammed, unknown and its door_state
\* one of open, closed, ajar, unknown, whatever statuses the session
\* reports and the status maps route into the ledger.
C29_PositionsWithinEnums ==
    /\ state.lock_state \in {"locked", "unlocked", "locking", "unlocking",
                              "jammed", "unknown"}
    /\ state.door_state \in {"open", "closed", "ajar", "unknown"}

\* C25: at most one session (PushLock) and at most one advertisement
\* scanner are live at any time, for every sequence of start() and stop()
\* calls, start() called twice without a stop() in between and start()
\* failing part-way included.
C25_OneSessionOneScanner ==
    /\ link.sessions <= 1
    /\ link.scanners <= 1

\* the step is a link notification handled by _on_state_change
LinkEvent ==
    /\ call'.op = "_on_state_change"
    /\ out'.op = "none"

\* lock position, door position or battery of the ledger changed
RoutedFieldChanged ==
    \/ state'.lock_state # state.lock_state
    \/ state'.door_state # state.door_state
    \/ state'.battery_level # state.battery_level

\* C26: for each link notification the activity callback is invoked
\* exactly once when lock position, door position or battery changed the
\* ledger, and not at all when none of them did, whatever auto-lock,
\* device info, connection and signal strength did.
C26_ActivityOncePerChange ==
    [][LinkEvent =>
           IF RoutedFieldChanged
           THEN /\ call'.num = Some(1)
                /\ sched'.last_activity_time = mono
           ELSE /\ call'.num = Some(0)
                /\ sched' = sched]_vars

\* one notification changed lock, door and battery at once, and the
\* activity was marked
C26_Witness ==
    /\ call.op = "_on_state_change"
    /\ call.num = Some(1)
    /\ Len(accepted) = 3
    /\ state.lock_state = "calibrating"
    /\ state.door_state = "ajar"
    /\ state.battery_level = Some(80)
    /\ sched.last_activity_time = mono

\* C33: in every state get_diagnostics() can show, the intermediate states
\* of stop() across its awaits included, device_found implies running
\* and a live session handle; device_found becomes true only in a
\* forwarded advertisement, and is false once stop() has returned.
C33_FoundOnlyWhileRunning ==
    /\ [](get_diagnostics(monitor).device_found =>
              /\ get_diagnostics(monitor).running
              /\ get_diagnostics(monitor).lock_name # None)
    /\ [][(~monitor._device_found /\ monitor'._device_found) =>
              (out'.op = "_on_advertisement" /\ out'.forwarded)]_vars
    /\ [][(call'.op = "stop" /\ call'.str = "done") =>
              ~monitor'._device_found]_vars

----------------------------------------------------------------------------
(* Properties of the stopped monitor, checked under SpecStopped *)

\* stop() has returned and start() has not been called since
StopReturned ==
    /\ monitor.pc = "idle"
    /\ ~monitor._running
    /\ ~monitor._push_lock
    /\ link.session \in {"cancelled", "disconnected"}

\* C35: after stop() has returned and until the next start(), no decoded
\* link event reaches the ledger: a state-change callback of the session
\* leaves the snapshot alone, adds no event, invokes no activity callback,
\* and the ledger's connected flag stays false.
C35_StoppedMonitorIsDeaf ==
    /\ [](StopReturned => ~state.connected)
    /\ [][(StopReturned /\ call'.op = "_on_state_change") =>
              /\ state' = state
              /\ accepted' = accepted
              /\ sched' = sched]_vars

----------------------------------------------------------------------------
(* Properties of the application's shutdown, checked under SpecApp *)

\* run_app has entered monitor.stop()
TeardownBegun == app.pc \in {"stopping", "stop_raised", "done"}

\* C18: when monitor.stop() begins to tear the session down, the
\* scheduler's task is over: no poll_state is in flight, no cancellation
\* is pending and, the task being over, none can start; a read of
\* poll_state is only ever in flight on a started session of a running
\* monitor.
C18_LoopOverBeforeTeardown ==
    /\ TeardownBegun =>
           /\ driver.pc = "done"
           /\ ~driver.cancel
           /\ monitor.poll = "idle"
    /\ monitor.poll = "reading" =>
           /\ driver.pc = "polling"
           /\ monitor._running
           /\ monitor.pc = "idle"
           /\ link.session = "started"
           /\ link.teardown = {}

\* the shutdown found a read in flight: it was cancelled, the task
\* ended, and only then did stop() reach the forced disconnect
C18_Witness ==
    /\ app.pc = "stopping"
    /\ monitor.pc = "disconnect"
    /\ driver.last = "cancelled"
    /\ driver.pc = "done"
    /\ sched.last_poll_time # 0

----------------------------------------------------------------------------
(* Properties of the application's polling, checked under SpecApp *)

\* C21: the scheduler's last_poll_time is recorded only for a poll whose
\* read on the session succeeded: the step in which poll_state returns
\* after a failed read, or returns at once because the monitor is not
\* running or has no session, leaves last_poll_time as it was.
C21_PollRecordedOnlyOnSuccess ==
    [][(PollStep("failed") \/ PollStep("skipped")) =>
           sched'.last_poll_time = sched.last_poll_time]_vars

----------------------------------------------------------------------------
(* Properties of the dashboard's stream, checked under SpecDash *)

\* every broadcast task made so far is over
BroadcastsOver ==
    \A k \in 1 .. Len(dash.tasks) : dash.tasks[k].pc \in {"done", "raised"}

\* C34: no change event is lost for a stream client: once the broadcasts
\* are over, a client that is still connected has been written, as a
\* state_update, every event accepted after its handler read the state
\* for its initial message.
C34_NoLostUpdate ==
    \A c \in 1 .. Len(dash.handlers) :
        (/\ BroadcastsOver
         /\ dash.handlers[c].pc = "streaming"
         /\ dash.handlers[c].open) =>
            \A k \in dash.handlers[c].seen + 1 .. Len(accepted) :
                Contains(dash.handlers[c].got, k)

\* C40: each connected client is in the registry at most once, and no
\* broadcast tries to remove a client that is no longer registered: no
\* broadcast task ends in the exception of list.remove, part-way through
\* its removals.
C40_RegistryConsistent ==
    /\ \A i, j \in 1 .. Len(dash._sse_clients) :
           i # j => dash._sse_clients[i] # dash._sse_clients[j]
    /\ \A k \in 1 .. Len(dash.tasks) : dash.tasks[k].pc # "raised"

----------------------------------------------------------------------------
(* Properties of the plugin's active-hours polling, checked under          *)
(* SpecPlugin                                                              *)

\* the half-open window [start, end) of times of day, going over midnight
\* when start > end
InWindow(start, end, t) ==
    IF start > end THEN t >= start \/ t < end ELSE start <= t /\ t < end

\* the active window of the day type of the time now
InActiveHours(o, now) ==
    IF now.weekday \in o.weekend_days
    THEN InWindow(o.we_start, o.we_end, now.time)
    ELSE InWindow(o.wd_start, o.wd_end, now.time)

\* C39: while the entry is loaded a poll timer is registered iff
\* is_currently_active is true, and it is the one polling_unsub holds;
\* after each schedule check is_currently_active holds iff the time
\* checked lies in the half-open active window of its day type, which
\* spans midnight when start > end; at most one poll timer is registered
\* at any time; a scheduled poll that fails leaves the timer registered;
\* and once the entry is unloaded no poll timer remains.
C39_PollTimerFollowsActiveHours ==
    /\ [](/\ plugin.pc = "loaded" =>
              /\ plugin.poll_timers # {} <=> plugin.is_currently_active
              /\ plugin.poll_timers =
                     IF plugin.polling_unsub = None THEN {}
                     ELSE {plugin.polling_unsub[1]}
          /\ plugin.last \in {"setup", "check"}
                 /\ plugin.options.always_connected =>
              plugin.is_currently_active
                  <=> InActiveHours(plugin.options, plugin.now)
          /\ Cardinality(plugin.poll_timers) <= 1
          /\ plugin.pc = "unloaded" => plugin.poll_timers = {})
    /\ [][plugin'.last = "poll_failed" =>
              /\ plugin'.poll_timers = plugin.poll_timers
              /\ plugin'.polling_unsub = plugin.polling_unsub
              /\ plugin'.is_currently_active = plugin.is_currently_active]_vars

\* a scheduled poll has failed while the entry is loaded and polling in a
\* weekday window that spans midnight, the time last checked being after
\* midnight
C39_Witness ==
    /\ plugin.pc = "loaded"
    /\ plugin.last = "poll_failed"
    /\ plugin.poll_timers # {}
    /\ plugin.options.wd_start > plugin.options.wd_end
    /\ plugin.now.weekday \notin plugin.options.weekend_days
    /\ plugin.now.time < plugin.options.wd_end

====
